---- MODULE Spec2Model ----
(***************************************************************************)
(* Model of src/script-relatorio-data.py: the record normalizer            *)
(* (normalize_body, map_status, load_messages_from_workbook) and the       *)
(* similarity clusterer (are_similar, cluster_messages), the report        *)
(* functions and main; and of src/script_relatorio.py: the fetch workers   *)
(* and the merge of gerar_relatorio_twilio.                                *)
(*                                                                         *)
(* Text is a sequence of characters, each character a one-element string   *)
(* (two code points that need a name are IDOT and CDOT below).  A cell of  *)
(* a worksheet row is a record [kind, val]: kind "none" is Python's None,  *)
(* kind "str" a str whose characters are val.                              *)
(***************************************************************************)
EXTENDS Integers, Sequences, FiniteSets, TLC

VARIABLES
    rows,          \* rows_iter after the header: the data rows not yet consumed
    row_idx,       \* number of rows load_messages_from_workbook has consumed
    messages,      \* the list load_messages_from_workbook builds, then the input of cluster_messages
    dropped,       \* number of rows the loader skipped with `continue`
    threshold,     \* args.threshold in hundredths (70 is 0.70), None before parse_args
    msg_idx,       \* number of messages the loop of cluster_messages has processed
    heap,          \* the MessageCluster objects in creation order; a reference is an index of heap
    ids,           \* id(cluster) of each object of heap
    allocator,     \* how the run's allocator numbers new objects: "up" or "down"
    clusters,      \* the list `clusters`: references (indices of heap)
    exact_index,   \* dict normalized body -> reference
    prefix_index,  \* defaultdict prefix -> list of references
    pc,            \* position of main: "start", "load", "cluster", "done", "end", "exit"; or "call"
    argv,          \* the value given to --threshold on the command line
    status,        \* the exit status of the run, None while it runs
    report,        \* what print_console_report has printed
    call,          \* a single call of a pure function: [fn, arg]
    ret,           \* the values that call has returned so far
    twilio,        \* gerar_relatorio_twilio: what the Twilio stream of each block yields
    tarefas,       \* the future of each block: its state and, once done, its result
    resultados,    \* the list `resultados`, in the order as_completed gave the futures
    yielded,       \* the futures as_completed has given to the loop so far
    gpc,           \* position of gerar_relatorio_twilio: "collect", "shutdown", "returned", "raised"
    ws,            \* the rows appended to the sheet below the header row
    arquivo,       \* the saved workbook: <<>> before wb.save, then <<its rows>>
    retorno,       \* what gerar_relatorio_twilio returned: <<>> or <<the dict>>
    logs,          \* the lines the main thread logged about results and errors
    CLIENT_CACHE,  \* the threading.local of script_relatorio: for each thread its attribute `client`
    clients,       \* the Client objects created so far; a client is an index of this list
    got,           \* the calls of get_twilio_client so far, each with the client it returned
    LOG_CALLBACK,  \* the module global of script_relatorio: <<>> for None, <<r>> for the callback of run r
    log_runs,      \* each run of gerar_relatorio_twilio: its position, its `previous`, the lines it logged
    log_lines,     \* the log lines delivered so far: [run, line, sink], sink <<>> being print
    overlapped,    \* whether a run has begun while another one was between its begin and its end
    config,        \* the configuration globals of analisar_e_gerar_pdf: FILTRO, USAR_REGEX, ...
    pdf_jobs,      \* each call of gerar_pdf_relatorio: its position, arguments, backup and results
    pdfs,          \* the PDF files written: for each path <<>> or <<what the page shows>>
    pdf_overlapped, \* whether a call has begun while another one was between its begin and its end
    PLANILHA_JOBS, \* relatorio_sms_web: the registry of the spreadsheet jobs, job id -> job
    PDF_JOBS,      \* the registry of the PDF jobs
    DOWNLOAD_CACHE, \* download token -> entry
    web_workers,   \* the worker thread of each job: its position and what its generator does
    temp_dirs,     \* the temporary directories that exist: directory -> the files in it
    responses,     \* each request to /download/<token>: its position, entry and status code
    arrived        \* the calls of the log functions so far, in the order they took the lock

main_vars == <<rows, row_idx, messages, dropped, threshold, msg_idx, heap, ids, allocator,
               clusters, exact_index, prefix_index, pc, argv, status, report, call, ret>>

fetch_vars == <<twilio, tarefas, resultados, yielded, gpc, ws, arquivo, retorno, logs>>

client_vars == <<CLIENT_CACHE, clients, got>>

log_vars == <<LOG_CALLBACK, log_runs, log_lines, overlapped>>

pdf_vars == <<config, pdf_jobs, pdfs, pdf_overlapped>>

web_vars == <<PLANILHA_JOBS, PDF_JOBS, DOWNLOAD_CACHE, web_workers, temp_dirs, responses,
              arrived>>

conc_vars == <<client_vars, log_vars, pdf_vars, web_vars>>

vars == <<main_vars, fetch_vars, conc_vars>>

\* gerar_relatorio_twilio is not running
FetchIdle ==
    /\ twilio = <<>>
    /\ tarefas = <<>>
    /\ resultados = <<>>
    /\ yielded = {}
    /\ gpc = "idle"
    /\ ws = <<>>
    /\ arquivo = <<>>
    /\ retorno = <<>>
    /\ logs = <<>>

MaxThreads == 2     \* threads that call get_twilio_client

Threads == 1..MaxThreads

\* no thread has called get_twilio_client
ClientIdle ==
    /\ CLIENT_CACHE = [t \in Threads |-> <<>>]
    /\ clients = <<>>
    /\ got = <<>>

MaxRuns == 2        \* concurrent runs of gerar_relatorio_twilio

Runs == 1..MaxRuns

\* no run of gerar_relatorio_twilio has entered temporary_log_callback
LogIdle ==
    /\ LOG_CALLBACK = <<>>
    /\ log_runs = [r \in Runs |-> [pc |-> "idle", previous |-> <<>>, line |-> 0, error |-> FALSE]]
    /\ log_lines = {}
    /\ overlapped = FALSE

\* the calls of gerar_pdf_relatorio: two, that follow each other or overlap
PdfJobs == {1, 2}

\* the values of the seven globals after the import of the module (lines 74-84)
PdfDefaults ==
    [ FILTRO            |-> <<>>,
      USAR_REGEX        |-> TRUE,
      ID_FLOW           |-> <<>>,
      TEXTO_SMS         |-> <<>>,
      DATA_RELATORIO    |-> "today",
      ARQUIVO_PDF_SAIDA |-> <<"cwd", 0>>,     \* a path is <<directory, name>>
      SUBTITLE          |-> <<>> ]

\* a call that has not begun; an absent (None) argument is <<>>, a given one <<value>>
PdfJob(args) ==
    [ pc |-> "idle", args |-> args, at_begin |-> PdfDefaults, backup |-> PdfDefaults,
      filtrados |-> <<>>, texto |-> <<>>, aberto |-> <<>>, retorno |-> <<>>, erro |-> <<>> ]

NoPdfArgs ==
    [ arquivos |-> <<>>, filtro |-> <<>>, usar_regex |-> <<>>, id_flow |-> <<>>,
      texto_sms |-> <<>>, arquivo_pdf_saida |-> <<>>, subtitle |-> <<>>, data_relatorio |-> <<>> ]

PdfPaths == {PdfDefaults.ARQUIVO_PDF_SAIDA} \cup {<<"tmp", j>> : j \in PdfJobs}

\* gerar_pdf_relatorio has not been called
PdfIdle ==
    /\ config = PdfDefaults
    /\ pdf_jobs = [j \in PdfJobs |-> PdfJob(NoPdfArgs)]
    /\ pdfs = [path \in PdfPaths |-> <<>>]
    /\ pdf_overlapped = FALSE

\* the jobs the web application starts: two, one after the other or together
WebJobs == {1, 2}

\* the requests to /download/<token>: two, one after the other or together
Requests == {1, 2}

\* the web application has received no request
WebIdle ==
    /\ PLANILHA_JOBS = <<>>
    /\ PDF_JOBS = <<>>
    /\ DOWNLOAD_CACHE = <<>>
    /\ web_workers = [w \in WebJobs |-> [pc |-> "none", kind |-> "none", lines |-> 0,
                                         resultado |-> <<>>, exc |-> <<>>]]
    /\ temp_dirs = <<>>
    /\ responses = [r \in Requests |-> [pc |-> "none", token |-> <<>>, registro |-> <<>>,
                                         status |-> 0]]
    /\ arrived = <<>>

ConcIdle == ClientIdle /\ LogIdle /\ PdfIdle /\ WebIdle

-----------------------------------------------------------------------------
(* Bounds *)

MaxRows == 3        \* longest worksheet of Spec
MaxMonoRows == 4    \* longest worksheet of SpecMono
MaxLongRows == 3    \* longest worksheet of SpecLong
IdTop == 2          \* the first id of the allocator "down", which counts downwards
MaxPieces == 3      \* longest text handed to normalize_body / map_status, in pieces
MaxArgRows == 2     \* longest worksheet of SpecArgs
MaxMembers == 3     \* most members of a cluster handed to a report function
MaxClusters == 3    \* most clusters handed to summarize_overall
MaxBlocos == 3      \* most blocks gerar_relatorio_twilio divides the period into

-----------------------------------------------------------------------------
(* Characters *)

IDOT == "U+0130"    \* LATIN CAPITAL LETTER I WITH DOT ABOVE
CDOT == "U+0307"    \* COMBINING DOT ABOVE (category Mn: neither \w nor \s)

LowerLetters ==
    {"a", "b", "c", "d", "e", "f", "g", "h", "i", "j", "k", "l", "m", "n", "o", "p", "q",
     "r", "s", "t", "u", "v", "w", "x", "y", "z"}
UpperLetters == {"A", "B", "D", "E", "H", "I", "L", "P", "R", "S", "T", "V", IDOT}

\* str.isspace / the class \s
IsSpace(c) == c \in {" ", "\t", "\n"}

\* the class \w of a str pattern: alphanumerics and the underscore
IsWord(c) == c \in LowerLetters \cup UpperLetters \cup {"0", "1", "_"}

\* str.lower() of one character; U+0130 lowers to two code points
LowerChar(c) ==
    CASE c = "A" -> <<"a">> [] c = "B" -> <<"b">> [] c = "D" -> <<"d">>
      [] c = "E" -> <<"e">> [] c = "H" -> <<"h">> [] c = "I" -> <<"i">>
      [] c = "L" -> <<"l">> [] c = "P" -> <<"p">> [] c = "R" -> <<"r">>
      [] c = "S" -> <<"s">> [] c = "T" -> <<"t">> [] c = "V" -> <<"v">>
      [] c = IDOT -> <<"i", CDOT>>
      [] OTHER -> <<c>>

RECURSIVE Lower(_)
Lower(s) == IF s = <<>> THEN <<>> ELSE LowerChar(Head(s)) \o Lower(Tail(s))

RECURSIVE LStrip(_)
LStrip(s) == IF s # <<>> /\ IsSpace(Head(s)) THEN LStrip(Tail(s)) ELSE s

RECURSIVE RStrip(_)
RStrip(s) ==
    IF s # <<>> /\ IsSpace(s[Len(s)]) THEN RStrip(SubSeq(s, 1, Len(s) - 1)) ELSE s

\* str.strip()
Strip(s) == RStrip(LStrip(s))

\* re.IGNORECASE comparison of one character with a lower-case pattern letter
MatchesIgnoreCase(c, letter) == LowerChar(c) = <<letter>>

\* index of the last character of the run \S+ that starts at i, 0 if s[i] is not \S
RECURSIVE NonSpaceRunEnd(_, _)
NonSpaceRunEnd(s, i) ==
    IF i > Len(s) \/ IsSpace(s[i]) THEN 0
    ELSE IF i + 1 > Len(s) \/ IsSpace(s[i + 1]) THEN i
    ELSE NonSpaceRunEnd(s, i + 1)

\* "https?" matched at i: the index after it, 0 if there is no match there
HttpPrefixEnd(s, i) ==
    IF /\ i + 3 <= Len(s)
       /\ MatchesIgnoreCase(s[i], "h")
       /\ MatchesIgnoreCase(s[i + 1], "t")
       /\ MatchesIgnoreCase(s[i + 2], "t")
       /\ MatchesIgnoreCase(s[i + 3], "p")
    THEN IF i + 4 <= Len(s) /\ MatchesIgnoreCase(s[i + 4], "s") THEN i + 5 ELSE i + 4
    ELSE 0

\* "://\S+" matched at k, the index after "https?" (0 if that did not match)
ColonSlashes(s, k) ==
    IF k # 0 /\ k + 2 <= Len(s) /\ s[k] = ":" /\ s[k + 1] = "/" /\ s[k + 2] = "/"
    THEN NonSpaceRunEnd(s, k + 3)
    ELSE 0

\* "//\S+" matched at k
Slashes(s, k) ==
    IF k # 0 /\ k + 1 <= Len(s) /\ s[k] = "/" /\ s[k + 1] = "/"
    THEN NonSpaceRunEnd(s, k + 2)
    ELSE 0

\* URL_PATTERN = https?://\S+ matched at i: index of the last matched character, 0 if none
URL_PATTERN(s, i) == ColonSlashes(s, HttpPrefixEnd(s, i))

\* URL_PATTERN_ALT = \bhttps?//\S+ matched at i; \b holds before a word character
\* at the start of the text or after a non-word character
URL_PATTERN_ALT(s, i) ==
    IF i = 1 \/ ~IsWord(s[i - 1]) THEN Slashes(s, HttpPrefixEnd(s, i)) ELSE 0

\* pattern.sub(" ", s) from position i on: leftmost non-overlapping matches;
\* e is the end of the match at i, 0 if there is none
RECURSIVE SubUrl(_, _, _)
SubUrlAt(s, i, alt, e) ==
    IF e # 0 THEN <<" ">> \o SubUrl(s, e + 1, alt)
    ELSE <<s[i]>> \o SubUrl(s, i + 1, alt)

SubUrl(s, i, alt) ==
    IF i > Len(s) THEN <<>>
    ELSE SubUrlAt(s, i, alt, IF alt THEN URL_PATTERN_ALT(s, i) ELSE URL_PATTERN(s, i))

\* NON_WORD_PATTERN.sub(" ", s), the pattern being [^\w\s]
NON_WORD_PATTERN(s) ==
    [i \in 1..Len(s) |-> IF ~IsWord(s[i]) /\ ~IsSpace(s[i]) THEN " " ELSE s[i]]

\* MULTI_WS_PATTERN.sub(" ", s), the pattern being \s+
RECURSIVE MULTI_WS_PATTERN(_)
MULTI_WS_PATTERN(s) ==
    IF s = <<>> THEN <<>>
    ELSE IF IsSpace(Head(s))
         THEN <<" ">> \o MULTI_WS_PATTERN(LStrip(s))
         ELSE <<Head(s)>> \o MULTI_WS_PATTERN(Tail(s))

-----------------------------------------------------------------------------
(* Cells *)

None == [kind |-> "none", val |-> <<>>]
Str(s) == [kind |-> "str", val |-> s]

\* bool(cell): None, "" and 0 are falsy
Truthy(cell) ==
    CASE cell.kind = "str" -> cell.val # <<>>
      [] cell.kind = "num" -> cell.val # 0
      [] cell.kind = "date" -> TRUE
      [] OTHER -> FALSE

\* str(cell or ""), the cell being None or a str
StrOrEmpty(cell) == IF cell.kind = "str" THEN cell.val ELSE <<>>

-----------------------------------------------------------------------------
(* Record normalizer *)

\* lines 168-171 on the stripped text
normalize_raw(raw) ==
    IF raw = <<>> THEN <<>>
    ELSE Lower(Strip(MULTI_WS_PATTERN(NON_WORD_PATTERN(
             SubUrl(SubUrl(raw, 1, FALSE), 1, TRUE)))))

normalize_body(text) == normalize_raw(Strip(StrOrEmpty(text)))

NORMALIZED_STATUS_DELIVERED == "Entregue"
NORMALIZED_STATUS_OTHER == "Enviada e Não Entregue"

delivered == <<"d", "e", "l", "i", "v", "e", "r", "e", "d">>

\* map_status, but the value is not stripped
map_status_unstripped(value) ==
    IF Lower(StrOrEmpty(value)) = delivered
    THEN NORMALIZED_STATUS_DELIVERED
    ELSE NORMALIZED_STATUS_OTHER

map_status(value) ==
    IF Lower(Strip(StrOrEmpty(value))) = delivered
    THEN NORMALIZED_STATUS_DELIVERED
    ELSE NORMALIZED_STATUS_OTHER

-----------------------------------------------------------------------------
(* difflib.SequenceMatcher(None, a, b, autojunk=False) *)

Min(x, y) == IF x <= y THEN x ELSE y
Max(x, y) == IF x >= y THEN x ELSE y

\* length of the common run of a[i..ahi] and b[j..bhi] that starts at (i, j)
RECURSIVE MatchRun(_, _, _, _, _, _)
MatchRun(a, b, i, j, ahi, bhi) ==
    IF i <= ahi /\ j <= bhi /\ a[i] = b[j]
    THEN 1 + MatchRun(a, b, i + 1, j + 1, ahi, bhi)
    ELSE 0

\* find_longest_match: <<i, j, k>>, the longest block a[i..i+k-1] = b[j..j+k-1] inside
\* a[alo..ahi], b[blo..bhi]; of the longest, the one that starts earliest in a, and
\* of those the one that starts earliest in b; k = 0 when nothing matches
RunTable(a, b, alo, ahi, blo, bhi) ==
    [p \in (alo..ahi) \X (blo..bhi) |-> MatchRun(a, b, p[1], p[2], ahi, bhi)]

SetMax(S) == CHOOSE n \in S : \A m \in S : m <= n
SetMin(S) == CHOOSE n \in S : \A m \in S : n <= m

\* the length of the longest run
LongestRun(run) == SetMax({run[p] : p \in DOMAIN run} \cup {0})

\* the starts <<i, j>> of the runs of length k
StartsOf(run, k) == {p \in DOMAIN run : run[p] = k}

\* the start that is earliest in a, i being that position, and there earliest in b
BlockAt(starts, i, k) == <<i, SetMin({p[2] : p \in {q \in starts : q[1] = i}}), k>>

EarliestBlock(starts, k) == BlockAt(starts, SetMin({p[1] : p \in starts}), k)

BlockOf(run, k, alo, blo) ==
    IF k = 0 THEN <<alo, blo, 0>> ELSE EarliestBlock(StartsOf(run, k), k)

LongestBlock(run, alo, blo) == BlockOf(run, LongestRun(run), alo, blo)

find_longest_match(a, b, alo, ahi, blo, bhi) ==
    LongestBlock(RunTable(a, b, alo, ahi, blo, bhi), alo, blo)

\* get_matching_blocks, summed: the number of matched characters; m is the longest
\* block of the ranges, and the blocks to its left and to its right are added
RECURSIVE matching_blocks(_, _, _, _, _, _)
BlocksAround(a, b, alo, ahi, blo, bhi, m) ==
    IF m[3] = 0 THEN 0
    ELSE m[3] + matching_blocks(a, b, alo, m[1] - 1, blo, m[2] - 1)
              + matching_blocks(a, b, m[1] + m[3], ahi, m[2] + m[3], bhi)

matching_blocks(a, b, alo, ahi, blo, bhi) ==
    IF alo > ahi \/ blo > bhi THEN 0
    ELSE BlocksAround(a, b, alo, ahi, blo, bhi, find_longest_match(a, b, alo, ahi, blo, bhi))

Occurrences(s, c) == Cardinality({i \in 1..Len(s) : s[i] = c})
Range(s) == {s[i] : i \in 1..Len(s)}

RECURSIVE SumOver(_, _, _, _)
SumOver(S, a, b, acc) ==
    IF S = {} THEN acc
    ELSE LET c == CHOOSE x \in S : TRUE IN
         SumOver(S \ {c}, a, b, acc + Min(Occurrences(a, c), Occurrences(b, c)))

\* the three estimates as numbers of matches: each ratio is 2.0 * matches / (len(a) + len(b))
ratio(a, b) == matching_blocks(a, b, 1, Len(a), 1, Len(b))
quick_ratio(a, b) == SumOver(Range(a), a, b, 0)
real_quick_ratio(a, b) == Min(Len(a), Len(b))

\* RatioBelow, but the comparison is reversed: the ratio is above the threshold
RatioBelow_reversed(matches, length, thr) ==
    IF length = 0 THEN 100 > thr ELSE 200 * matches > thr * length

\* _calculate_ratio(matches, length) < threshold, the threshold in hundredths
RatioBelow(matches, length, thr) ==
    IF length = 0 THEN 100 < thr ELSE 200 * matches < thr * length

\* are_similar, but it returns True once the two estimates pass, the full ratio never
\* being computed
are_similar_estimates(a, b, thr) ==
    /\ a # <<>>
    /\ b # <<>>
    /\ ~RatioBelow(real_quick_ratio(a, b), Len(a) + Len(b), thr)
    /\ ~RatioBelow(quick_ratio(a, b), Len(a) + Len(b), thr)

are_similar(a, b, thr) ==
    IF a = <<>> \/ b = <<>> THEN FALSE
    ELSE IF RatioBelow(real_quick_ratio(a, b), Len(a) + Len(b), thr) THEN FALSE
    ELSE IF RatioBelow(quick_ratio(a, b), Len(a) + Len(b), thr) THEN FALSE
    ELSE ~RatioBelow(ratio(a, b), Len(a) + Len(b), thr)

-----------------------------------------------------------------------------
(* Dates: parse_datetime and extract_date.  A date is its proleptic Gregorian
   ordinal (date.toordinal()); of a datetime only the date is kept, which is
   all extract_date uses. *)

Num(n) == [kind |-> "num", val |-> n]
Date(ordinal) == [kind |-> "date", val |-> ordinal]

Digits == {"0", "1", "2", "3", "4", "5", "6", "7", "8", "9"}

DigitVal(c) ==
    CASE c = "0" -> 0 [] c = "1" -> 1 [] c = "2" -> 2 [] c = "3" -> 3 [] c = "4" -> 4
      [] c = "5" -> 5 [] c = "6" -> 6 [] c = "7" -> 7 [] c = "8" -> 8 [] c = "9" -> 9

\* int(t) for a run of digits t
RECURSIVE TokVal(_)
TokVal(t) == IF t = <<>> THEN 0 ELSE 10 * TokVal(SubSeq(t, 1, Len(t) - 1)) + DigitVal(t[Len(t)])

IsNumber(t) == t # <<>> /\ \A i \in 1..Len(t) : t[i] \in Digits
IsBlank(t) == t # <<>> /\ \A i \in 1..Len(t) : IsSpace(t[i])

\* the end of the token of s that starts at i: a run of digits, a run of whitespace,
\* or one other character
RECURSIVE RunEnd(_, _, _)
RunEnd(s, i, digits) ==
    IF i < Len(s) /\ (IF digits THEN s[i + 1] \in Digits ELSE IsSpace(s[i + 1]))
    THEN RunEnd(s, i + 1, digits)
    ELSE i

TokenEnd(s, i) ==
    IF s[i] \in Digits THEN RunEnd(s, i, TRUE)
    ELSE IF IsSpace(s[i]) THEN RunEnd(s, i, FALSE)
    ELSE i

RECURSIVE TokensFrom(_, _)
TokensFrom(s, i) ==
    IF i > Len(s) THEN <<>>
    ELSE <<SubSeq(s, i, TokenEnd(s, i))>> \o TokensFrom(s, TokenEnd(s, i) + 1)

IsLeap(y) == y % 4 = 0 /\ (y % 100 # 0 \/ y % 400 = 0)

DaysInMonth(y, m) ==
    IF m = 2 THEN (IF IsLeap(y) THEN 29 ELSE 28)
    ELSE IF m \in {4, 6, 9, 11} THEN 30 ELSE 31

RECURSIVE DaysBeforeMonth(_, _)
DaysBeforeMonth(y, m) ==
    IF m = 1 THEN 0 ELSE DaysBeforeMonth(y, m - 1) + DaysInMonth(y, m - 1)

DaysBeforeYear(y) == (y - 1) * 365 + (y - 1) \div 4 - (y - 1) \div 100 + (y - 1) \div 400

\* date(y, m, d).toordinal()
Ordinal(y, m, d) == DaysBeforeYear(y) + DaysBeforeMonth(y, m) + d

\* datetime(y, m, d, ...) raises ValueError unless the date exists
ValidDate(y, m, d) ==
    /\ y \in 1..9999
    /\ m \in 1..12
    /\ d \in 1..DaysInMonth(y, m)

ValidTime(h, mi, sec) == h < 24 /\ mi < 60 /\ sec < 60

\* the date of datetime(y, m, d, h, mi, sec), None for the ValueError
DateOf(y, m, d, h, mi, sec) ==
    IF ValidDate(y, m, d) /\ ValidTime(h, mi, sec) THEN Date(Ordinal(y, m, d)) ELSE None

\* the tokens t[i], t[i+2], ... are numbers of the widths w, the tokens between them
\* the characters of sep
FieldsMatch(t, w, sep) ==
    /\ Len(t) = 2 * Len(w) - 1
    /\ \A k \in 1..Len(w) : IsNumber(t[2 * k - 1]) /\ Len(t[2 * k - 1]) \in w[k]
    /\ \A k \in 1..Len(sep) :
           IF sep[k] = " " THEN IsBlank(t[2 * k]) ELSE t[2 * k] = <<sep[k]>>

\* datetime.fromisoformat(text), the forms every Python 3 version accepts:
\* YYYY-MM-DD, then any one character and HH, HH:MM or HH:MM:SS
IsoForm(t) ==
    /\ Len(t) \in {5, 7, 9, 11}
    /\ \A k \in 1..((Len(t) + 1) \div 2) :
           IsNumber(t[2 * k - 1]) /\ Len(t[2 * k - 1]) = (IF k = 1 THEN 4 ELSE 2)
    /\ t[2] = <<"-">> /\ t[4] = <<"-">>
    /\ Len(t) > 5 => Len(t[6]) = 1
    /\ \A k \in 4..((Len(t) - 1) \div 2) : t[2 * k] = <<":">>

Field(t, k) == IF k <= Len(t) THEN TokVal(t[k]) ELSE 0

fromisoformat(t) ==
    IF IsoForm(t)
    THEN DateOf(Field(t, 1), Field(t, 3), Field(t, 5), Field(t, 7), Field(t, 9), Field(t, 11))
    ELSE None

\* datetime.strptime(text, fmt) for the three formats of line 212: %Y is four
\* digits, the other fields one or two, a space of the format any whitespace
strptime_ymd_hms(t) ==
    IF FieldsMatch(t, <<{4}, {1, 2}, {1, 2}, {1, 2}, {1, 2}, {1, 2}>>,
                   <<"-", "-", " ", ":", ":">>)
    THEN DateOf(Field(t, 1), Field(t, 3), Field(t, 5), Field(t, 7), Field(t, 9), Field(t, 11))
    ELSE None

strptime_dmy_hms(t) ==
    IF FieldsMatch(t, <<{1, 2}, {1, 2}, {4}, {1, 2}, {1, 2}, {1, 2}>>,
                   <<"/", "/", " ", ":", ":">>)
    THEN DateOf(Field(t, 5), Field(t, 3), Field(t, 1), Field(t, 7), Field(t, 9), Field(t, 11))
    ELSE None

strptime_ymd(t) ==
    IF FieldsMatch(t, <<{4}, {1, 2}, {1, 2}>>, <<"-", "-">>)
    THEN DateOf(Field(t, 1), Field(t, 3), Field(t, 5), 0, 0, 0)
    ELSE None

\* the first of the parsers that does not raise ValueError (lines 205-217)
FirstParsed(results, i) ==
    IF \E k \in i..Len(results) : results[k] # None
    THEN results[CHOOSE k \in i..Len(results) :
                    results[k] # None /\ \A j \in i..(k - 1) : results[j] = None]
    ELSE None

parse_text(t) ==
    FirstParsed(<<fromisoformat(t), strptime_ymd_hms(t), strptime_dmy_hms(t), strptime_ymd(t)>>, 1)

\* excel_serial_to_datetime(float(value)).date(), None for the OverflowError
excel_serial_to_datetime(serial) ==
    IF Ordinal(1899, 12, 30) + serial \in 1..Ordinal(9999, 12, 31)
    THEN Date(Ordinal(1899, 12, 30) + serial)
    ELSE None

\* parse_datetime(value) reduced to the date; the text of a number or of a date
\* object is never parsed
parse_datetime(value) ==
    CASE value.kind = "none" -> None
      [] value.kind = "date" -> value
      [] value.kind = "num" -> excel_serial_to_datetime(value.val)
      [] value.kind = "str" ->
            IF Strip(value.val) = <<>> THEN None ELSE parse_text(TokensFrom(Strip(value.val), 1))

DATE_KEYS == <<"date_sent", "data_envio", "sent_at", "date_created", "data_criacao">>

\* extract_date, but the first key the row has decides
RECURSIVE extract_from_present(_, _)
extract_from_present(row, i) ==
    IF i > Len(DATE_KEYS) THEN None
    ELSE IF DATE_KEYS[i] \notin DOMAIN row THEN extract_from_present(row, i + 1)
    ELSE parse_datetime(row[DATE_KEYS[i]])

\* extract_date(row): the date of the first key of DATE_KEYS, from position i on,
\* that the row has and whose value parses
RECURSIVE extract_from(_, _)
extract_from(row, i) ==
    IF i > Len(DATE_KEYS) THEN None
    ELSE IF DATE_KEYS[i] \notin DOMAIN row THEN extract_from(row, i + 1)
    ELSE IF parse_datetime(row[DATE_KEYS[i]]) # None THEN parse_datetime(row[DATE_KEYS[i]])
    ELSE extract_from(row, i + 1)

extract_date(row) == extract_from(row, 1)

-----------------------------------------------------------------------------
(* load_messages_from_workbook: one data row *)

\* any(raw_row): the row is a record, its fields the columns of the header
AnyCell(row) == \E column \in DOMAIN row : Truthy(row[column])

\* the Message built from a row (lines 257-277)
Message(row) ==
    [ body            |-> Strip(row.body.val),
      body_normalized |-> normalize_body(row.body),
      status_raw      |-> StrOrEmpty(row.status),
      status_mapped   |-> map_status(row.status),
      date            |-> extract_date(row) ]

\* the messages one row appends: none when an `if ...: continue` skips the row
load_row(row) ==
    IF ~AnyCell(row) THEN <<>>
    ELSE IF ~Truthy(row.body) THEN <<>>
    ELSE <<Message(row)>>

-----------------------------------------------------------------------------
(* cluster_messages *)

PREFIX_LEN == 40

\* normalized[:40] if normalized else ""
Prefix(normalized) == SubSeq(normalized, 1, Min(PREFIX_LEN, Len(normalized)))

\* d.get(key, default) of a dict modelled as a function
Get(d, key, default) == IF key \in DOMAIN d THEN d[key] ELSE default

\* d[key] = value
Put(d, key, value) == [k \in DOMAIN d \cup {key} |-> IF k = key THEN value ELSE d[k]]

\* the first reference of the list refs, from position i on, that Accepts(ref); 0 if none
RECURSIVE FirstFrom(_, _, _)
FirstFrom(refs, i, ok) ==
    IF i > Len(refs) THEN 0
    ELSE IF refs[i] \in ok THEN refs[i]
    ELSE FirstFrom(refs, i + 1, ok)

\* "pulo heuristico" (lines 344-347): the threshold and 0.15 in hundredths
length_skip(normalized, rep, thr) ==
    /\ normalized # <<>>
    /\ rep # <<>>
    /\ LET max_len == Max(Len(rep), Len(normalized))
           min_len == Min(Len(rep), Len(normalized))
       IN  max_len # 0 /\ 100 * min_len < (thr - 15) * max_len

\* the references the first loop (lines 334-337) accepts
bucket_accepts(st, normalized, candidates, thr) ==
    {c \in Range(candidates) : are_similar(normalized, st.heap[c].representative, thr)}

\* scan_accepts, but the set of ids is searched for the reference, not for its id
scan_accepts_reference(st, normalized, evaluated_ids, thr) ==
    {c \in Range(st.clusters) :
        /\ c \notin evaluated_ids
        /\ ~length_skip(normalized, st.heap[c].representative, thr)
        /\ are_similar(normalized, st.heap[c].representative, thr)}

\* the references the second loop (lines 340-350) accepts
scan_accepts(st, normalized, evaluated_ids, thr) ==
    {c \in Range(st.clusters) :
        /\ st.ids[c] \notin evaluated_ids
        /\ ~length_skip(normalized, st.heap[c].representative, thr)
        /\ are_similar(normalized, st.heap[c].representative, thr)}

\* lines 339-350: hit is what the first loop assigned (0 for None)
scan_clusters(st, normalized, candidates, thr, hit) ==
    IF hit # 0 THEN hit
    ELSE FirstFrom(st.clusters, 1,
                   scan_accepts(st, normalized, {st.ids[c] : c \in Range(candidates)}, thr))

\* lines 331-350, but one loop over the clusters in creation order, those of the
\* bucket tested without the check of the lengths
search_clusters_creation(st, normalized, candidates, thr) ==
    FirstFrom(st.clusters, 1,
              bucket_accepts(st, normalized, candidates, thr)
                \cup scan_accepts(st, normalized, {}, thr))

\* lines 331-350: the bucket of the prefix first, then every other cluster
search_clusters(st, normalized, candidates, thr) ==
    scan_clusters(st, normalized, candidates, thr,
                  FirstFrom(candidates, 1, bucket_accepts(st, normalized, candidates, thr)))

\* lines 324-350: the reference of the cluster that takes msg, 0 if none does
find_cluster(st, msg, thr) ==
    IF msg.body_normalized # <<>> /\ msg.body_normalized \in DOMAIN st.exact_index
    THEN st.exact_index[msg.body_normalized]
    ELSE search_clusters(st, msg.body_normalized,
                         Get(st.prefix_index, Prefix(msg.body_normalized), <<>>), thr)

\* MessageCluster(representative=normalized, representative_raw=msg.body, messages=[])
MessageCluster(msg) ==
    [ representative     |-> msg.body_normalized,
      representative_raw |-> msg.body,
      messages           |-> <<>> ]

\* add, but the list of the cluster is replaced by the message
add_replacing(cluster, m) == [cluster EXCEPT !.messages = <<m>>]

\* MessageCluster.add: the list holds references, here positions in the input list
add(cluster, m) == [cluster EXCEPT !.messages = Append(@, m)]

\* the dataclass __eq__ of MessageCluster: field by field, the messages by value
cluster_eq(msgs, c, d) ==
    /\ c.representative = d.representative
    /\ c.representative_raw = d.representative_raw
    /\ Len(c.messages) = Len(d.messages)
    /\ \A j \in 1..Len(c.messages) : msgs[c.messages[j]] = msgs[d.messages[j]]

\* `assigned_cluster not in bucket`: list membership is identity or equality
not_in_bucket(msgs, h, bucket, ref) ==
    \A i \in 1..Len(bucket) : bucket[i] # ref /\ ~cluster_eq(msgs, h[bucket[i]], h[ref])

\* lines 362-367, but the exact-match index gets the first cluster of the list
update_indexes_first(st, msgs, normalized, prefix, bucket, assigned_cluster) ==
    [st EXCEPT
       !.exact_index  = IF normalized # <<>> /\ normalized \notin DOMAIN @
                        THEN Put(@, normalized, st.clusters[1])
                        ELSE @,
       !.prefix_index = IF not_in_bucket(msgs, st.heap, bucket, assigned_cluster)
                        THEN Put(@, prefix, Append(bucket, assigned_cluster))
                        ELSE Put(@, prefix, bucket)]

\* lines 362-367: the indexes after the message went to assigned_cluster
update_indexes(st, msgs, normalized, prefix, bucket, assigned_cluster) ==
    [st EXCEPT
       !.exact_index  = IF normalized # <<>> /\ normalized \notin DOMAIN @
                        THEN Put(@, normalized, assigned_cluster)
                        ELSE @,
       !.prefix_index = IF not_in_bucket(msgs, st.heap, bucket, assigned_cluster)
                        THEN Put(@, prefix, Append(bucket, assigned_cluster))
                        ELSE Put(@, prefix, bucket)]

\* lines 360-367, but the cluster takes the raw body of each message it is given as
\* its representative_raw
add_and_index_drift(st, msgs, m, assigned_cluster) ==
    update_indexes([st EXCEPT !.heap[assigned_cluster] =
                       [add(@, m) EXCEPT !.representative_raw = msgs[m].body]], msgs,
                   msgs[m].body_normalized, Prefix(msgs[m].body_normalized),
                   Get(st.prefix_index, Prefix(msgs[m].body_normalized), <<>>),
                   assigned_cluster)

\* lines 360-367, the message being msgs[m]
add_and_index(st, msgs, m, assigned_cluster) ==
    update_indexes([st EXCEPT !.heap[assigned_cluster] = add(@, m)], msgs,
                   msgs[m].body_normalized, Prefix(msgs[m].body_normalized),
                   Get(st.prefix_index, Prefix(msgs[m].body_normalized), <<>>),
                   assigned_cluster)

\* lines 352-367: found is the cluster that takes the message, 0 for None; new_id is
\* the id a cluster created here gets
assign(st, msgs, m, found, new_id) ==
    IF found # 0 THEN add_and_index(st, msgs, m, found)
    ELSE add_and_index([st EXCEPT !.heap = Append(@, MessageCluster(msgs[m])),
                                  !.ids = Append(@, new_id),
                                  !.clusters = Append(@, Len(st.heap) + 1)],
                       msgs, m, Len(st.heap) + 1)

\* one iteration of the loop of cluster_messages (lines 320-367) on the state
\* st = [heap, ids, clusters, exact_index, prefix_index], the message being msgs[m]
cluster_iter(st, msgs, m, thr, new_id) ==
    assign(st, msgs, m, find_cluster(st, msgs[m], thr), new_id)

\* list.sort(key=lambda c: c.total, reverse=True): a stable sort, so a reference is
\* inserted after every reference whose total is at least its own
InsertAt(sorted, ref, before) ==
    SubSeq(sorted, 1, before) \o <<ref>> \o SubSeq(sorted, before + 1, Len(sorted))

\* InsertByTotal, but a reference goes before the references with its own total: the
\* sort is no longer stable
InsertByTotal_unstable(h, sorted, ref) ==
    InsertAt(sorted, ref,
             Cardinality({i \in 1..Len(sorted) :
                             Len(h[sorted[i]].messages) > Len(h[ref].messages)}))

InsertByTotal(h, sorted, ref) ==
    InsertAt(sorted, ref,
             Cardinality({i \in 1..Len(sorted) :
                             Len(h[sorted[i]].messages) >= Len(h[ref].messages)}))

RECURSIVE sort_by_total(_, _)
sort_by_total(h, refs) ==
    IF refs = <<>> THEN <<>>
    ELSE InsertByTotal(h, sort_by_total(h, SubSeq(refs, 1, Len(refs) - 1)), refs[Len(refs)])

\* the id of the next object under an allocator, n objects being allocated
NewId(alloc, n) == IF alloc = "up" THEN n + 1 ELSE IdTop - n

\* the loop of cluster_messages over msgs[i..], under an allocator
RECURSIVE cluster_loop(_, _, _, _, _)
cluster_loop(st, msgs, i, thr, alloc) ==
    IF i > Len(msgs) THEN st
    ELSE cluster_loop(cluster_iter(st, msgs, i, thr, NewId(alloc, Len(st.heap))),
                      msgs, i + 1, thr, alloc)

\* the state of cluster_messages before its loop (lines 316-318)
EmptyState ==
    [heap |-> <<>>, ids |-> <<>>, clusters |-> <<>>, exact_index |-> <<>>,
     prefix_index |-> <<>>]

Deref(h, refs) == [i \in 1..Len(refs) |-> h[refs[i]]]

Returned(st) == Deref(st.heap, sort_by_total(st.heap, st.clusters))

\* cluster_messages(messages, threshold): the returned list, each cluster by value,
\* in a run whose allocator is "up"
cluster_messages(msgs, thr) == Returned(cluster_loop(EmptyState, msgs, 1, thr, "up"))

-----------------------------------------------------------------------------
(* The aggregates of a MessageCluster and summarize_overall.  A cluster here holds
   its Message objects, not their positions. *)

\* the cluster ref of the heap with its members resolved
Resolve(h, msgs, ref) == [h[ref] EXCEPT !.messages = [j \in 1..Len(@) |-> msgs[@[j]]]]

\* the returned list with the members resolved
ResolveAll(h, msgs, refs) == [k \in 1..Len(refs) |-> Resolve(h, msgs, refs[k])]

\* d[key] += 1, but the count starts again at every message
Inc_reset(d, key) == Put(d, key, 1)

\* d[key] += 1 of a defaultdict(int)
Inc(d, key) == Put(d, key, Get(d, key, 0) + 1)

\* MessageCluster.total
total(cluster) == Len(cluster.messages)

\* MessageCluster.counts_by_date: the loop from member i on
RECURSIVE counts_by_date_from(_, _, _)
counts_by_date_from(ms, i, counts) ==
    IF i > Len(ms) THEN counts
    ELSE IF ms[i].date = None THEN counts_by_date_from(ms, i + 1, counts)
    ELSE counts_by_date_from(ms, i + 1,
             Put(counts, ms[i].date.val,
                 Inc(Get(counts, ms[i].date.val, <<>>), ms[i].status_mapped)))

counts_by_date(cluster) == counts_by_date_from(cluster.messages, 1, <<>>)

\* MessageCluster.counts_totals: the loop from member i on
RECURSIVE counts_totals_from(_, _, _)
counts_totals_from(ms, i, totals) ==
    IF i > Len(ms) THEN totals
    ELSE counts_totals_from(ms, i + 1, Inc(totals, ms[i].status_mapped))

counts_totals(cluster) == counts_totals_from(cluster.messages, 1, <<>>)

\* sum(cluster.total for cluster in clusters)
RECURSIVE SumOfTotals(_)
SumOfTotals(cs) == IF cs = <<>> THEN 0 ELSE total(Head(cs)) + SumOfTotals(Tail(cs))

\* the members of the clusters in the order of the two loops of lines 390-391
RECURSIVE AllMembers(_)
AllMembers(cs) == IF cs = <<>> THEN <<>> ELSE Head(cs).messages \o AllMembers(Tail(cs))

\* the body of the inner loop, but the status is looked at only when there is no date
summarize_step_elif(acc, msg) ==
    [ dates              |-> IF Truthy(msg.date) THEN Inc(acc.dates, msg.date.val) ELSE acc.dates,
      delivered          |-> IF ~Truthy(msg.date) /\ msg.status_mapped = NORMALIZED_STATUS_DELIVERED
                             THEN acc.delivered + 1 ELSE acc.delivered,
      sent_not_delivered |-> IF ~Truthy(msg.date) /\ msg.status_mapped # NORMALIZED_STATUS_DELIVERED
                             THEN acc.sent_not_delivered + 1 ELSE acc.sent_not_delivered ]

\* the body of the inner loop (lines 392-397) for the message msg
summarize_step(acc, msg) ==
    [ dates              |-> IF Truthy(msg.date) THEN Inc(acc.dates, msg.date.val) ELSE acc.dates,
      delivered          |-> IF msg.status_mapped = NORMALIZED_STATUS_DELIVERED
                             THEN acc.delivered + 1 ELSE acc.delivered,
      sent_not_delivered |-> IF msg.status_mapped = NORMALIZED_STATUS_DELIVERED
                             THEN acc.sent_not_delivered ELSE acc.sent_not_delivered + 1 ]

RECURSIVE summarize_from(_, _, _)
summarize_from(ms, i, acc) ==
    IF i > Len(ms) THEN acc ELSE summarize_from(ms, i + 1, summarize_step(acc, ms[i]))

\* the dict summarize_overall returns, given what its loops counted
Overview(cs, acc) ==
    [ total_messages     |-> SumOfTotals(cs),
      total_clusters     |-> Len(cs),
      total_entregue     |-> acc.delivered,
      total_nao_entregue |-> acc.sent_not_delivered,
      dates              |-> acc.dates ]

summarize_overall(cs) ==
    Overview(cs, summarize_from(AllMembers(cs), 1,
                                [dates |-> <<>>, delivered |-> 0, sent_not_delivered |-> 0]))

-----------------------------------------------------------------------------
(* MessageCluster.body_template and sanitize_template *)

\* "{variavel}"
PLACEHOLDER == <<"{", "v", "a", "r", "i", "a", "v", "e", "l", "}">>

\* str.split() of a text that does not start with whitespace
RECURSIVE SplitStripped(_)
SplitStripped(t) ==
    IF t = <<>> THEN <<>>
    ELSE <<SubSeq(t, 1, NonSpaceRunEnd(t, 1))>>
             \o SplitStripped(LStrip(SubSeq(t, NonSpaceRunEnd(t, 1) + 1, Len(t))))

\* str.split(): the maximal runs of characters that are not whitespace
Split(s) == SplitStripped(LStrip(s))

\* " ".join(tokens)
RECURSIVE Join(_)
Join(tokens) ==
    IF tokens = <<>> THEN <<>>
    ELSE IF Len(tokens) = 1 THEN tokens[1]
    ELSE tokens[1] \o <<" ">> \o Join(Tail(tokens))

\* line 106, but the stripped body of a member is kept as its one token
RECURSIVE tokens_per_message_whole(_, _)
tokens_per_message_whole(ms, i) ==
    IF i > Len(ms) THEN <<>>
    ELSE IF Strip(ms[i].body) = <<>> THEN tokens_per_message_whole(ms, i + 1)
    ELSE <<<<Strip(ms[i].body)>>>> \o tokens_per_message_whole(ms, i + 1)

\* line 106: the tokens of the members whose stripped body is not empty
RECURSIVE tokens_per_message(_, _)
tokens_per_message(ms, i) ==
    IF i > Len(ms) THEN <<>>
    ELSE IF Strip(ms[i].body) = <<>> THEN tokens_per_message(ms, i + 1)
    ELSE <<Split(Strip(ms[i].body))>> \o tokens_per_message(ms, i + 1)

\* lines 117-121, idx counting from 1
has_missing(tpm, idx) == \E k \in 1..Len(tpm) : idx > Len(tpm[k])
values(tpm, idx) == {tpm[k][idx] : k \in {n \in 1..Len(tpm) : idx <= Len(tpm[n])}}

\* lines 126-130: what one position appends to template_tokens
template_step(template_tokens, vals, missing) ==
    IF Cardinality(vals) = 1 /\ ~missing
    THEN Append(template_tokens, CHOOSE v \in vals : TRUE)
    ELSE IF template_tokens = <<>> \/ template_tokens[Len(template_tokens)] # PLACEHOLDER
         THEN Append(template_tokens, PLACEHOLDER)
         ELSE template_tokens

\* the loop of lines 116-130 from position idx on
RECURSIVE template_from(_, _, _, _)
template_from(tpm, idx, max_len, template_tokens) ==
    IF idx > max_len THEN template_tokens
    ELSE IF values(tpm, idx) = {} /\ has_missing(tpm, idx) THEN template_tokens
    ELSE template_from(tpm, idx + 1, max_len,
                       template_step(template_tokens, values(tpm, idx), has_missing(tpm, idx)))

\* lines 107-132 on tokens_per_message
template_of(tpm) ==
    IF tpm = <<>> THEN <<>>
    ELSE IF Len(tpm) = 1 THEN Join(tpm[1])
    ELSE Join(template_from(tpm, 1, SetMax({Len(tpm[k]) : k \in 1..Len(tpm)}), <<>>))

body_template(cluster) ==
    IF cluster.messages = <<>> THEN <<>>
    ELSE template_of(tokens_per_message(cluster.messages, 1))

\* sum(1 for token in tokens if token == "{variavel}")
var_tokens(tokens) == Cardinality({i \in 1..Len(tokens) : tokens[i] = PLACEHOLDER})

\* lines 417-428, but the template is given up only above 60% of placeholders
sanitize_tokens_above(cluster, template, tokens) ==
    IF tokens = <<>> THEN cluster.representative_raw
    ELSE IF var_tokens(tokens) = Len(tokens) THEN cluster.representative_raw
    ELSE IF 5 * var_tokens(tokens) > 3 * Len(tokens) THEN cluster.representative_raw
    ELSE template

\* lines 417-428 on the tokens of the template; 0.6 is 3/5
sanitize_tokens(cluster, template, tokens) ==
    IF tokens = <<>> THEN cluster.representative_raw
    ELSE IF var_tokens(tokens) = Len(tokens) THEN cluster.representative_raw
    ELSE IF 5 * var_tokens(tokens) >= 3 * Len(tokens) THEN cluster.representative_raw
    ELSE template

\* lines 413-428 on the stripped template
sanitize_stripped(cluster, template) ==
    IF template = <<>> THEN cluster.representative_raw
    ELSE sanitize_tokens(cluster, template, Split(template))

sanitize_template(cluster) == sanitize_stripped(cluster, Strip(body_template(cluster)))

-----------------------------------------------------------------------------
(* Inputs *)

\* "sua fatura do mes ja esta disponivel no ": 40 characters
Common ==
    << "s", "u", "a", " ", "f", "a", "t", "u", "r", "a", " ", "d", "o", " ", "m", "e", "s",
       " ", "j", "a", " ", "e", "s", "t", "a", " ", "d", "i", "s", "p", "o", "n", "i", "v",
       "e", "l", " ", "n", "o", " " >>

\* two bodies that share their first 40 characters, and a body close to the first
\* whose first 40 characters are others
Long1 == Common \o <<"a">>
Long2 == Common \o <<"b">>
Long3 == <<"t">> \o Common \o <<"a">>

StDelivered == Str(delivered)
StFailed == Str(<<"f", "a", "i", "l", "e", "d">>)
StUpper == Str(<<"D", "E", "L", "I", "V", "E", "R", "E", "D">>)

Row(b, s) == [body |-> b, status |-> s]

RowPool ==
    { Row(None, None),                                  \* a blank line
      Row(Str(<<>>), StDelivered),                      \* body ""
      Row(Str(<<" ", " ">>), StFailed),                 \* body of blanks
      Row(Str(<<"!">>), StDelivered),                   \* body of punctuation
      Row(Str(<<"a">>), StUpper),
      Row(Str(<<"a", "b", "a">>), StFailed),
      Row(Str(<<"A", "b", "a", "!">>), StDelivered),
      Row(Str(<<"a", "a", "b">>), StDelivered) }

LongPool ==
    { Row(Str(Long1), StDelivered),
      Row(Str(Long2), StFailed),
      Row(Str(Long3), StDelivered) }

MonoPool ==
    { Row(Str(<<"a", "a", "a">>), StDelivered),
      Row(Str(<<"a", "b", "a">>), StDelivered),
      Row(Str(<<"a", "b">>), StFailed),
      Row(Str(<<"b", "a">>), StFailed) }

\* --threshold, in hundredths
Thresholds == {50, 70}
MonoThresholds == {60, 80, 100}
LongThresholds == {70, 97, 98}

\* what --threshold can hold: a float (val in hundredths), an infinity, nan, or a
\* text float() rejects
Float(hundredths) == [kind |-> "float", val |-> hundredths]
Inf == [kind |-> "inf", val |-> 0]
NaN == [kind |-> "nan", val |-> 0]
NotFloat == [kind |-> "text", val |-> 0]

\* the test of line 565 as 0 <= args.threshold <= 1
ValidThreshold_closed(arg) == arg.kind = "float" /\ 0 <= arg.val /\ arg.val <= 100

\* 0 < args.threshold <= 1 (line 565): every comparison with nan is False
ValidThreshold(arg) == arg.kind = "float" /\ 0 < arg.val /\ arg.val <= 100

\* --threshold of SpecArgs: valid, out of (0, 1], not finite, not a float
Args == {Float(70), Float(100), Float(1), Float(0), Float(-10), Float(101), Inf, NaN, NotFloat}

RECURSIVE SeqsUpTo(_, _)
SeqsUpTo(S, n) ==
    IF n = 0 THEN {<<>>}
    ELSE LET shorter == SeqsUpTo(S, n - 1) IN
         shorter \cup {Append(q, x) : q \in {r \in shorter : Len(r) = n - 1}, x \in S}

\* the texts made of at most n pieces
RECURSIVE Texts(_, _)
Texts(P, n) ==
    IF n = 0 THEN {<<>>}
    ELSE LET shorter == Texts(P, n - 1) IN
         shorter \cup {t \o x : t \in shorter, x \in P}

BodyPieces ==
    { <<"h", "t", "t", "p", ":", "/", "/">>, <<"H", "T", "T", "P", "S", ":", "/", "/">>,
      <<"h", "t", "t", "p", "/", "/">>, <<"a">>, <<"B">>, <<" ">>, <<"!">>, <<"_">>,
      <<IDOT>> }

StatusPieces ==
    { delivered, StUpper.val, <<"D", "e", "l", "i", "v", "e", "r", "e", "d">>,
      StFailed.val, <<" ">>, <<"\n">>, <<"d">>, <<IDOT>> }

Calls ==
    {[fn |-> "normalize_body", arg |-> Str(t)] : t \in Texts(BodyPieces, MaxPieces)}
      \cup {[fn |-> "normalize_body", arg |-> None]}
      \cup {[fn |-> "map_status", arg |-> Str(t)] : t \in Texts(StatusPieces, MaxPieces - 1)}
      \cup {[fn |-> "map_status", arg |-> None]}

-----------------------------------------------------------------------------
(* The run of main: arguments, load, cluster, report *)

NoCall == [fn |-> "main", arg |-> None]

InitRun(pool, max_rows, args) ==
    /\ rows \in SeqsUpTo(pool, max_rows)
    /\ argv \in args
    /\ threshold = None
    /\ allocator \in {"up", "down"}
    /\ ids = <<>>
    /\ row_idx = 0
    /\ messages = <<>>
    /\ dropped = 0
    /\ msg_idx = 0
    /\ heap = <<>>
    /\ clusters = <<>>
    /\ exact_index = <<>>
    /\ prefix_index = <<>>
    /\ pc = "start"
    /\ status = None
    /\ report = <<>>
    /\ call = NoCall
    /\ ret = <<>>
    /\ FetchIdle
    /\ ConcIdle

InitWith(pool, max_rows, thresholds) ==
    InitRun(pool, max_rows, {Float(t) : t \in thresholds})

Init == InitWith(RowPool, MaxRows, Thresholds)

InitMono == InitWith(MonoPool, MaxMonoRows, MonoThresholds)

InitLong == InitWith(LongPool, MaxLongRows, LongThresholds)

InitArgs == InitRun(RowPool, MaxArgRows, Args)

\* the variables of cluster_messages as one record
State ==
    [heap |-> heap, ids |-> ids, clusters |-> clusters, exact_index |-> exact_index,
     prefix_index |-> prefix_index]

SetState(st) ==
    /\ heap' = st.heap
    /\ ids' = st.ids
    /\ clusters' = st.clusters
    /\ exact_index' = st.exact_index
    /\ prefix_index' = st.prefix_index

\* main, lines 558-567: parse_args exits with status 2 when float() rejects the
\* text of --threshold; the input files are found; the threshold is checked
ParseArgs ==
    /\ pc = "start"
    /\ IF argv.kind = "text"
       THEN pc' = "exit" /\ status' = Num(2) /\ UNCHANGED threshold
       ELSE IF ~ValidThreshold(argv)
            THEN pc' = "exit" /\ status' = Num(1) /\ UNCHANGED threshold
            ELSE pc' = "load" /\ threshold' = argv.val /\ UNCHANGED status
    /\ UNCHANGED <<rows, row_idx, messages, dropped, msg_idx, heap, ids, allocator,
                   clusters, exact_index, prefix_index, argv, report, call, ret>>
    /\ UNCHANGED fetch_vars
    /\ UNCHANGED conc_vars

\* one iteration of the loop of load_messages_from_workbook (lines 247-278)
LoadRow ==
    /\ pc = "load"
    /\ rows # <<>>
    /\ messages' = messages \o load_row(Head(rows))
    /\ dropped' = IF Len(messages') = Len(messages) THEN dropped + 1 ELSE dropped
    /\ rows' = Tail(rows)
    /\ row_idx' = row_idx + 1
    /\ UNCHANGED <<threshold, msg_idx, heap, ids, allocator, clusters, exact_index,
                   prefix_index, pc, argv, status, report, call, ret>>
    /\ UNCHANGED fetch_vars
    /\ UNCHANGED conc_vars

\* main, lines 568-573: no message ends the run, otherwise cluster_messages starts
StartClustering ==
    /\ pc = "load"
    /\ rows = <<>>
    /\ pc' = IF messages = <<>> THEN "exit" ELSE "cluster"
    /\ status' = IF messages = <<>> THEN Num(1) ELSE status
    /\ UNCHANGED <<rows, row_idx, messages, dropped, threshold, msg_idx, heap, ids,
                   allocator, clusters, exact_index, prefix_index, argv, report, call, ret>>
    /\ UNCHANGED fetch_vars
    /\ UNCHANGED conc_vars

\* one iteration of the loop of cluster_messages (lines 320-367)
ClusterStep ==
    /\ pc = "cluster"
    /\ msg_idx < Len(messages)
    /\ SetState(cluster_iter(State, messages, msg_idx + 1, threshold,
                             NewId(allocator, Len(heap))))
    /\ msg_idx' = msg_idx + 1
    /\ UNCHANGED <<rows, row_idx, messages, dropped, threshold, allocator, pc, argv,
                   status, report, call, ret>>
    /\ UNCHANGED fetch_vars
    /\ UNCHANGED conc_vars

\* the end of cluster_messages (lines 369-371): sort and return
Return ==
    /\ pc = "cluster"
    /\ msg_idx = Len(messages)
    /\ clusters' = sort_by_total(heap, clusters)
    /\ pc' = "done"
    /\ UNCHANGED <<rows, row_idx, messages, dropped, threshold, msg_idx, heap, ids,
                   allocator, exact_index, prefix_index, argv, status, report, call, ret>>
    /\ UNCHANGED fetch_vars
    /\ UNCHANGED conc_vars

\* what print_cluster_details prints of one cluster (lines 472-501)
cluster_details(cluster) ==
    [ total    |-> total(cluster),
      totals   |-> counts_totals(cluster),
      template |-> sanitize_template(cluster),
      dates    |-> counts_by_date(cluster) ]

\* print_console_report (lines 513-520)
print_console_report(cs) ==
    [ overview |-> summarize_overall(cs),
      details  |-> [k \in 1..Len(cs) |-> cluster_details(cs[k])] ]

\* main, lines 575-585: the report, or status 1 when there is no cluster
PrintReport ==
    /\ pc = "done"
    /\ IF clusters = <<>>
       THEN pc' = "exit" /\ status' = Num(1) /\ UNCHANGED report
       ELSE /\ report' = <<print_console_report(ResolveAll(heap, messages, clusters))>>
            /\ status' = Num(0)
            /\ pc' = "end"
    /\ UNCHANGED <<rows, row_idx, messages, dropped, threshold, msg_idx, heap, ids,
                   allocator, clusters, exact_index, prefix_index, argv, call, ret>>
    /\ UNCHANGED fetch_vars
    /\ UNCHANGED conc_vars

Next == ParseArgs \/ LoadRow \/ StartClustering \/ ClusterStep \/ Return \/ PrintReport

Spec == Init /\ [][Next]_vars

SpecMono == InitMono /\ [][Next]_vars

SpecLong == InitLong /\ [][Next]_vars

SpecArgs == InitArgs /\ [][Next]_vars


\* --- inputs of the single calls of the report functions ---

\* a row with a date_sent column
DatedRow(s, d) == [body |-> Str(<<"a">>), status |-> s, date_sent |-> d]

\* 2024-01-05 as a text, and the Excel serial of 2023-03-15
DateText == Str(<<"2", "0", "2", "4", "-", "0", "1", "-", "0", "5">>)
DateSerial == Num(45000)

\* the messages load_messages_from_workbook makes of such rows
AggMessages ==
    {Message(DatedRow(s, d)) : s \in {StDelivered, StFailed}, d \in {None, DateText, DateSerial}}

\* the cluster cluster_messages builds of the messages ms: MessageCluster(...) of
\* the first, then add of each
ClusterWith(ms) ==
    IF ms = <<>> THEN [representative |-> <<>>, representative_raw |-> <<>>, messages |-> <<>>]
    ELSE [MessageCluster(ms[1]) EXCEPT !.messages = ms]

AggClusters == {ClusterWith(ms) : ms \in SeqsUpTo(AggMessages, MaxMembers)}

\* the clusters of the lists handed to summarize_overall
OverallClusters ==
    {ClusterWith(ms) : ms \in SeqsUpTo(AggMessages, 1)}
      \cup {ClusterWith(<<Message(DatedRow(StDelivered, DateText)), Message(DatedRow(StFailed, d))>>) :
              d \in {None, DateText, DateSerial}}

\* bodies of the members of the clusters handed to sanitize_template
TemplateBodies ==
    { <<"a", " ", "b", " ", "a", " ", "b", " ", "a">>,
      <<"c", " ", "b", " ", "c", " ", "b", " ", "c">>,
      <<"a", " ", "b">>,
      <<"a", " ", " ", "b">>,
      <<"a", " ", "c">>,
      <<" ", " ">>,
      <<"x", " ", "{", "v", "a", "r", "i", "a", "v", "e", "l", "}">>,
      <<"y", " ", "{", "v", "a", "r", "i", "a", "v", "e", "l", "}">>,
      <<"{", "v", "a", "r", "i", "a", "v", "e", "l", "}", " ", " ", "{", "v", "a", "r", "i", "a", "v", "e", "l", "}", " ", "a">> }

TemplateMessages == {load_row(Row(Str(b), StDelivered))[1] : b \in TemplateBodies}

TemplateClusters == {ClusterWith(ms) : ms \in SeqsUpTo(TemplateMessages, MaxMembers)}

\* the cells of the date columns: null, texts (not a date, day/month/year with a
\* time), an Excel serial, a date
DateCells ==
    { None, Str(<<"a", "b", "c">>),
      Str(<<"0", "5", "/", "0", "1", "/", "2", "0", "2", "4", " ", "1", "0", ":", "0", "0", ":", "0", "0">>),
      DateSerial, Date(738000) }

DateColumns == {"date_sent", "data_envio", "date_created", "data_criacao"}

\* the rows with any of the date columns
DateRows ==
    {cells @@ Row(Str(<<"a">>), StDelivered) :
       cells \in UNION {[columns -> DateCells] : columns \in SUBSET DateColumns}}

ReportCalls ==
    {[fn |-> "aggregate", arg |-> c] : c \in AggClusters}
      \cup {[fn |-> "summarize_overall", arg |-> [clusters |-> cs]] : cs \in SeqsUpTo(OverallClusters, MaxClusters)}
      \cup {[fn |-> "sanitize_template", arg |-> c] : c \in TemplateClusters}
      \cup {[fn |-> "extract_date", arg |-> row] : row \in DateRows}

-----------------------------------------------------------------------------
(* Single calls of normalize_body and map_status *)

InitCalls(calls) ==
    /\ call \in calls
    /\ ret = <<>>
    /\ pc = "call"
    /\ argv = Float(70)
    /\ status = None
    /\ report = <<>>
    /\ rows = <<>>
    /\ threshold = 70
    /\ row_idx = 0
    /\ messages = <<>>
    /\ dropped = 0
    /\ msg_idx = 0
    /\ heap = <<>>
    /\ ids = <<>>
    /\ allocator = "up"
    /\ clusters = <<>>
    /\ exact_index = <<>>
    /\ prefix_index = <<>>
    /\ FetchIdle
    /\ ConcIdle

InitCall == InitCalls(Calls)

\* normalize_body(x), then normalize_body of what it returned
CallNormalizeBody ==
    /\ pc = "call"
    /\ call.fn = "normalize_body"
    /\ Len(ret) < 2
    /\ ret' = Append(ret, normalize_body(IF ret = <<>> THEN call.arg ELSE Str(ret[1])))
    /\ UNCHANGED <<rows, row_idx, messages, dropped, threshold, msg_idx, heap, ids,
                   allocator, clusters, exact_index, prefix_index, pc, argv, status,
                   report, call>>
    /\ UNCHANGED fetch_vars
    /\ UNCHANGED conc_vars

CallMapStatus ==
    /\ pc = "call"
    /\ call.fn = "map_status"
    /\ ret = <<>>
    /\ ret' = <<map_status(call.arg)>>
    /\ UNCHANGED <<rows, row_idx, messages, dropped, threshold, msg_idx, heap, ids,
                   allocator, clusters, exact_index, prefix_index, pc, argv, status,
                   report, call>>
    /\ UNCHANGED fetch_vars
    /\ UNCHANGED conc_vars

NextCall == CallNormalizeBody \/ CallMapStatus

SpecCall == InitCall /\ [][NextCall]_vars

-----------------------------------------------------------------------------
(* Single calls of the report functions *)

InitReport == InitCalls(ReportCalls)

\* total, counts_totals() and counts_by_date() of one cluster
CallAggregate ==
    /\ pc = "call"
    /\ call.fn = "aggregate"
    /\ ret = <<>>
    /\ ret' = <<[ total          |-> total(call.arg),
                  counts_totals  |-> counts_totals(call.arg),
                  counts_by_date |-> counts_by_date(call.arg) ]>>
    /\ UNCHANGED <<rows, row_idx, messages, dropped, threshold, msg_idx, heap, ids,
                   allocator, clusters, exact_index, prefix_index, pc, argv, status,
                   report, call>>
    /\ UNCHANGED fetch_vars
    /\ UNCHANGED conc_vars

CallSummarizeOverall ==
    /\ pc = "call"
    /\ call.fn = "summarize_overall"
    /\ ret = <<>>
    /\ ret' = <<summarize_overall(call.arg.clusters)>>
    /\ UNCHANGED <<rows, row_idx, messages, dropped, threshold, msg_idx, heap, ids,
                   allocator, clusters, exact_index, prefix_index, pc, argv, status,
                   report, call>>
    /\ UNCHANGED fetch_vars
    /\ UNCHANGED conc_vars

\* sanitize_template(cluster): what its call of body_template returned, then
\* what it returns
CallSanitizeTemplate ==
    /\ pc = "call"
    /\ call.fn = "sanitize_template"
    /\ ret = <<>>
    /\ ret' = <<body_template(call.arg), sanitize_template(call.arg)>>
    /\ UNCHANGED <<rows, row_idx, messages, dropped, threshold, msg_idx, heap, ids,
                   allocator, clusters, exact_index, prefix_index, pc, argv, status,
                   report, call>>
    /\ UNCHANGED fetch_vars
    /\ UNCHANGED conc_vars

CallExtractDate ==
    /\ pc = "call"
    /\ call.fn = "extract_date"
    /\ ret = <<>>
    /\ ret' = <<extract_date(call.arg)>>
    /\ UNCHANGED <<rows, row_idx, messages, dropped, threshold, msg_idx, heap, ids,
                   allocator, clusters, exact_index, prefix_index, pc, argv, status,
                   report, call>>
    /\ UNCHANGED fetch_vars
    /\ UNCHANGED conc_vars

NextReport ==
    CallAggregate \/ CallSummarizeOverall \/ CallSanitizeTemplate \/ CallExtractDate

SpecReport == InitReport /\ [][NextReport]_vars

-----------------------------------------------------------------------------
(* src/script_relatorio.py: gerar_relatorio_twilio and its fetch workers.  A time
   is a record [kind |-> "time", val |-> hours]; a sid is a number, in the order
   of the sids as strings. *)

Time(t) == [kind |-> "time", val |-> t]

\* datetime.datetime.min.replace(tzinfo=UTC)
MinTime == 0

\* the filter preparar_filtro returns for the configured FILTRO
filtro_func(body_text) == body_text = "hit"

\* formatar_brasil: "" without a time, else the text of the time three hours west
formatar_brasil(t) == IF t = None THEN <<>> ELSE <<t.val - 3>>

\* data_sent or data_created or datetime.min (line 272)
sort_key(msg) ==
    IF msg.date_sent # None THEN msg.date_sent.val
    ELSE IF msg.date_created # None THEN msg.date_created.val
    ELSE MinTime

\* the record processar_bloco appends for a message (lines 274-298)
registro(msg) ==
    [ sid          |-> msg.sid,
      date_sent    |-> msg.date_sent,
      date_created |-> msg.date_created,
      sort_key     |-> sort_key(msg),
      row          |-> [ sid          |-> msg.sid,
                         status       |-> msg.status,
                         date_created |-> formatar_brasil(msg.date_created),
                         date_sent    |-> formatar_brasil(msg.date_sent),
                         body         |-> msg.body ] ]

\* the loop of processar_bloco over the messages of the stream (lines 251-298)
RECURSIVE registros_of(_)
registros_of(msgs) ==
    IF msgs = <<>> THEN <<>>
    ELSE IF ~filtro_func(Head(msgs).body) THEN registros_of(Tail(msgs))
    ELSE <<registro(Head(msgs))>> \o registros_of(Tail(msgs))

\* what processar_bloco returns when the stream ends without an error
processar_bloco(indice_bloco, msgs) ==
    [ indice      |-> indice_bloco,
      processadas |-> Len(msgs),
      encontradas |-> Len(registros_of(msgs)),
      registros   |-> registros_of(msgs) ]

\* registros_combinados[registro["sid"]] = registro, but the first record of a sid
\* is kept
put_first(combinados, reg) ==
    IF \E k \in 1..Len(combinados) : combinados[k].sid = reg.sid
    THEN combinados
    ELSE Append(combinados, reg)

\* registros_combinados[registro["sid"]] = registro: the dict as the list of its
\* values in insertion order, where a key keeps the place of its first insertion
put(combinados, reg) ==
    IF \E k \in 1..Len(combinados) : combinados[k].sid = reg.sid
    THEN [k \in 1..Len(combinados) |->
             IF combinados[k].sid = reg.sid THEN reg ELSE combinados[k]]
    ELSE Append(combinados, reg)

RECURSIVE put_all(_, _)
put_all(combinados, regs) ==
    IF regs = <<>> THEN combinados ELSE put_all(put(combinados, Head(regs)), Tail(regs))

\* the two loops of lines 424-426
RECURSIVE registros_combinados(_, _)
registros_combinados(results, combinados) ==
    IF results = <<>> THEN combinados
    ELSE registros_combinados(Tail(results), put_all(combinados, Head(results).registros))

\* (item["sort_key"], item["sid"]) of a before that of b, or equal to it
key_le(a, b) == a.sort_key < b.sort_key \/ (a.sort_key = b.sort_key /\ a.sid <= b.sid)

\* sorted(..., key=...) is stable: a record goes after the records whose key is
\* not greater than its own
insert_by_key(ordered, reg) ==
    InsertAt(ordered, reg, Cardinality({k \in 1..Len(ordered) : key_le(ordered[k], reg)}))

RECURSIVE sorted_by_key(_, _)
sorted_by_key(regs, ordered) ==
    IF regs = <<>> THEN ordered
    ELSE sorted_by_key(Tail(regs), insert_by_key(ordered, Head(regs)))

\* mensagens_ordenadas (lines 428-431)
mensagens_ordenadas(results) == sorted_by_key(registros_combinados(results, <<>>), <<>>)

RECURSIVE total_processadas(_)
total_processadas(results) ==
    IF results = <<>> THEN 0 ELSE Head(results).processadas + total_processadas(Tail(results))

\* --- what the Twilio stream of a block yields ---

Msg(sid, sent, created, st, body) ==
    [sid |-> sid, date_sent |-> sent, date_created |-> created, status |-> st, body |-> body]

MsgA == Msg(1, Time(5), Time(4), "sent", "hit")
MsgA2 == Msg(1, Time(7), Time(4), "delivered", "hit")
MsgB == Msg(2, None, Time(5), "queued", "hit")
MsgC == Msg(3, None, None, "failed", "hit")
MsgMiss == Msg(4, Time(6), Time(6), "sent", "miss")

\* a stream: its messages, and whether it ends with an error of the API
Stream(msgs, fails) == [msgs |-> msgs, fails |-> fails]

StreamPool ==
    { Stream(<<MsgA, MsgC>>, FALSE), Stream(<<MsgB, MsgA>>, FALSE), Stream(<<MsgA2>>, FALSE),
      Stream(<<MsgMiss>>, FALSE), Stream(<<MsgB>>, TRUE) }

\* --- the run of gerar_relatorio_twilio ---

MainIdle ==
    /\ rows = <<>>
    /\ row_idx = 0
    /\ messages = <<>>
    /\ dropped = 0
    /\ threshold = None
    /\ msg_idx = 0
    /\ heap = <<>>
    /\ ids = <<>>
    /\ allocator = "up"
    /\ clusters = <<>>
    /\ exact_index = <<>>
    /\ prefix_index = <<>>
    /\ pc = "idle"
    /\ argv = Float(70)
    /\ status = None
    /\ report = <<>>
    /\ call = NoCall
    /\ ret = <<>>

\* lines 400-416: the tasks are submitted, the main thread enters as_completed
InitFetch ==
    /\ MainIdle
    /\ ConcIdle
    /\ twilio \in SeqsUpTo(StreamPool, MaxBlocos) \ {<<>>}
    /\ tarefas = [i \in 1..Len(twilio) |-> [state |-> "pending", result |-> <<>>]]
    /\ resultados = <<>>
    /\ yielded = {}
    /\ gpc = "collect"
    /\ ws = <<>>
    /\ arquivo = <<>>
    /\ retorno = <<>>
    /\ logs = <<>>

\* a thread of the pool takes the task of block i; the pool keeps doing so while
\* the executor shuts down
StartBloco ==
    \E i \in 1..Len(tarefas) :
        /\ gpc \in {"collect", "shutdown"}
        /\ tarefas[i].state = "pending"
        /\ tarefas' = [tarefas EXCEPT ![i].state = "running"]
        /\ UNCHANGED <<twilio, resultados, yielded, gpc, ws, arquivo, retorno, logs>>
        /\ UNCHANGED main_vars
        /\ UNCHANGED conc_vars

\* processar_bloco returns, or the error of the stream ends it: the future holds
\* the result or the exception
FinishBloco ==
    \E i \in 1..Len(tarefas) :
        /\ tarefas[i].state = "running"
        /\ tarefas' = [tarefas EXCEPT ![i] =
                          IF twilio[i].fails THEN [state |-> "failed", result |-> <<>>]
                          ELSE [state |-> "done", result |-> <<processar_bloco(i, twilio[i].msgs)>>]]
        /\ UNCHANGED <<twilio, resultados, yielded, gpc, ws, arquivo, retorno, logs>>
        /\ UNCHANGED main_vars
        /\ UNCHANGED conc_vars

\* one iteration of `for futuro in as_completed(tarefas)` (lines 417-420):
\* futuro.result() returns the result, or raises the exception of the worker and
\* the main thread leaves the loop for the exit of the `with` block
ReceiveResult ==
    \E i \in 1..Len(tarefas) :
        /\ gpc = "collect"
        /\ i \notin yielded
        /\ tarefas[i].state \in {"done", "failed"}
        /\ yielded' = yielded \cup {i}
        /\ IF tarefas[i].state = "done"
           THEN /\ resultados' = Append(resultados, tarefas[i].result[1])
                /\ logs' = Append(logs, [msg |-> "Resultado recebido do bloco", bloco |-> i])
                /\ UNCHANGED gpc
           ELSE /\ gpc' = "shutdown"
                /\ UNCHANGED <<resultados, logs>>
        /\ UNCHANGED <<twilio, tarefas, ws, arquivo, retorno>>
        /\ UNCHANGED main_vars
        /\ UNCHANGED conc_vars

\* executor.shutdown(wait=True) at the exit of the `with` block has waited for
\* every task; the exception leaves gerar_relatorio_twilio and main logs it
\* (lines 475-476): nothing is merged, appended or saved
Shutdown ==
    /\ gpc = "shutdown"
    /\ \A i \in 1..Len(tarefas) : tarefas[i].state \in {"done", "failed"}
    /\ gpc' = "raised"
    /\ logs' = Append(logs, [msg |-> "Erro ao gerar relatório", bloco |-> 0])
    /\ UNCHANGED <<twilio, tarefas, resultados, yielded, ws, arquivo, retorno>>
    /\ UNCHANGED main_vars
    /\ UNCHANGED conc_vars

\* lines 422-462 after the loop has received every result: merge, sort, append
\* the rows, save the workbook, return
MergeAndSave ==
    /\ gpc = "collect"
    /\ yielded = 1..Len(tarefas)
    /\ ws' = [k \in 1..Len(mensagens_ordenadas(resultados)) |->
                 mensagens_ordenadas(resultados)[k].row]
    /\ arquivo' = <<ws'>>
    /\ retorno' = <<[ total_encontradas |-> Len(ws'),
                      total_processadas |-> total_processadas(resultados) ]>>
    /\ gpc' = "returned"
    /\ UNCHANGED <<twilio, tarefas, resultados, yielded, logs>>
    /\ UNCHANGED main_vars
    /\ UNCHANGED conc_vars

NextFetch ==
    StartBloco \/ FinishBloco \/ ReceiveResult \/ Shutdown \/ MergeAndSave

SpecFetch == InitFetch /\ [][NextFetch]_vars

-----------------------------------------------------------------------------
(* Properties *)

\* cluster_messages is running or has returned
Running == pc \in {"cluster", "done"}

\* the positions of the returned list whose cluster holds message m
ClustersHolding(m) == {k \in 1..Len(clusters) : m \in Range(heap[clusters[k]].messages)}

\* how many times message m is a member of the cluster ref
TimesIn(ref, m) ==
    Cardinality({j \in 1..Len(heap[ref].messages) : heap[ref].messages[j] = m})

RECURSIVE SumTotals(_, _)
SumTotals(h, refs) ==
    IF refs = <<>> THEN 0 ELSE Len(h[Head(refs)].messages) + SumTotals(h, Tail(refs))

\* C1: every row read is either dropped by the loader or a message; every message
\* given to cluster_messages so far is a member of exactly one cluster of the list,
\* once, so that the totals of the clusters add up to the number of messages given:
\* no message is lost and none is duplicated.
C1_Completeness ==
    /\ Len(messages) + dropped = row_idx
    /\ Running =>
         /\ \A m \in 1..msg_idx :
              /\ Cardinality(ClustersHolding(m)) = 1
              /\ \A k \in ClustersHolding(m) : TimesIn(clusters[k], m) = 1
         /\ \A k \in 1..Len(clusters) : Range(heap[clusters[k]].messages) \subseteq 1..msg_idx
         /\ SumTotals(heap, clusters) = msg_idx
    /\ pc = "done" =>
         /\ msg_idx = Len(messages)
         /\ SumTotals(heap, clusters) + dropped = row_idx

\* cluster_messages has returned, the loader having dropped a row, and a cluster has
\* two members
C1_Witness ==
    /\ pc = "done"
    /\ dropped > 0
    /\ \E k \in 1..Len(clusters) : Len(heap[clusters[k]].messages) = 2

\* the full ratio of SequenceMatcher(None, a, b) is at least the threshold
FullRatioAtLeast(a, b, thr) == ~RatioBelow(ratio(a, b), Len(a) + Len(b), thr)

\* the normalized body of the j-th member of the cluster ref
MemberBody(ref, j) == messages[heap[ref].messages[j]].body_normalized

\* C2: after any prefix of the input is processed, every member of every cluster
\* whose normalized body is not empty has a full similarity ratio of at least the
\* threshold against the representative of its cluster, or has the normalized body
\* of an earlier member of the same cluster.
C2_Membership ==
    Running =>
        \A ref \in 1..Len(heap) : \A j \in 1..Len(heap[ref].messages) :
            MemberBody(ref, j) # <<>> =>
                \/ \E i \in 1..(j - 1) : MemberBody(ref, i) = MemberBody(ref, j)
                \/ FullRatioAtLeast(MemberBody(ref, j), heap[ref].representative, threshold)

\* a cluster has a member whose normalized body differs from the representative
\* and from the body of every earlier member: it came in by similarity
C2_Witness ==
    /\ Running
    /\ \E ref \in 1..Len(heap) : \E j \in 1..Len(heap[ref].messages) :
            /\ MemberBody(ref, j) # <<>>
            /\ MemberBody(ref, j) # heap[ref].representative
            /\ \A i \in 1..(j - 1) : MemberBody(ref, i) # MemberBody(ref, j)

\* the clusters whose representative is the empty string
NoBodyClusters == {ref \in 1..Len(heap) : heap[ref].representative = <<>>}

\* C3: a message whose normalized body is empty is never in a cluster whose
\* representative is not empty, and all such messages of a run are in one single
\* cluster: at most one cluster has the empty representative.
C3_EmptyPolicy ==
    Running =>
        /\ \A ref \in 1..Len(heap) : \A j \in 1..Len(heap[ref].messages) :
               MemberBody(ref, j) = <<>> => heap[ref].representative = <<>>
        /\ Cardinality(NoBodyClusters) <= 1

\* C4: a cluster is created for a message whose normalized body is not empty only
\* if the full ratio of that body against the representative of every cluster that
\* exists already is below the threshold: neither the estimates nor the skip on the
\* ratio of the lengths reject a cluster that the full ratio accepts.
C4_PreFilters ==
    Running =>
        \A ref \in 1..Len(heap) : \A earlier \in 1..(ref - 1) :
            heap[ref].representative # <<>> =>
                ~FullRatioAtLeast(heap[ref].representative,
                                  heap[earlier].representative, threshold)

\* the number of clusters cluster_messages returns
ClusterCount(msgs, thr) == Len(cluster_messages(msgs, thr))

\* C5 as the specification states it: for the same messages and two thresholds
\* t1 < t2, cluster_messages returns at t2 at least as many clusters as at t1.
C5_Monotone ==
    pc = "done" =>
        \A t2 \in MonoThresholds : threshold < t2 => Len(clusters) <= ClusterCount(messages, t2)

\* C5, amended: for the same messages, cluster_messages returns at the threshold 1.0
\* at least as many clusters as at any threshold of (0, 1].
C5_MostAtOne == pc = "done" => Len(clusters) <= ClusterCount(messages, 100)

\* a run below 1.0 has returned fewer clusters than the threshold 1.0 gives
C5_Witness ==
    /\ pc = "done"
    /\ threshold < 100
    /\ Len(clusters) < ClusterCount(messages, 100)

\* C6: the list cluster_messages returns (the number of clusters, the members of
\* each in their order, the order of the clusters) is the one of any other run on
\* the same messages and threshold, whatever id() gives the clusters: it is the
\* list of the run whose ids are 1, 2, 3, ...
C6_Determinism == pc = "done" => Deref(heap, clusters) = cluster_messages(messages, threshold)

\* a run whose ids count downwards has returned, and a message whose prefix bucket
\* was not empty has joined a cluster of another prefix, found by the second loop
C6_Witness ==
    /\ pc = "done"
    /\ allocator = "down"
    /\ \E ref \in 1..Len(heap) : \E j \in 1..Len(heap[ref].messages) :
           /\ Prefix(MemberBody(ref, j)) # Prefix(heap[ref].representative)
           /\ \E tested \in 1..Len(heap) :
                  /\ heap[tested].messages[1] < heap[ref].messages[j]
                  /\ Prefix(heap[tested].representative) = Prefix(MemberBody(ref, j))

\* the number of members of the k-th cluster of the returned list
TotalAt(k) == Len(heap[clusters[k]].messages)

\* C7: the returned list is sorted by number of members, descending, and of two
\* clusters with the same number the one created first comes first.
C7_Ordering ==
    pc = "done" =>
        \A k \in 1..Len(clusters) : \A l \in (k + 1)..Len(clusters) :
            \/ TotalAt(k) > TotalAt(l)
            \/ TotalAt(k) = TotalAt(l) /\ clusters[k] < clusters[l]

\* the returned list has two clusters with the same number of members, and a
\* cluster before one that was created earlier
C7_Witness ==
    /\ pc = "done"
    /\ \E k \in 1..Len(clusters) : \E l \in (k + 1)..Len(clusters) : TotalAt(k) = TotalAt(l)
    /\ \E k \in 1..Len(clusters) : \E l \in (k + 1)..Len(clusters) : clusters[k] > clusters[l]

\* C8: a row whose body is absent, None, the empty string or empty once stripped
\* produces no Message, so that no cluster has a member with such a body.
C8_EmptyBodyDropped ==
    /\ [][LoadRow /\ Strip(StrOrEmpty(Head(rows).body)) = <<>> => messages' = messages]_vars
    /\ [](\A ref \in 1..Len(heap) : \A j \in 1..Len(heap[ref].messages) :
              messages[heap[ref].messages[j]].body # <<>>)

\* str.lower() of s is "delivered", character by character
IsDelivered(s) ==
    /\ Len(s) = Len(delivered)
    /\ \A i \in 1..Len(s) : LowerChar(s[i]) = <<delivered[i]>>

\* map_status was called and has returned
MapStatusReturned == pc = "call" /\ call.fn = "map_status" /\ ret # <<>>

C10_Idempotent ==
    (pc = "call" /\ call.fn = "normalize_body" /\ Len(ret) = 2) => ret[2] = ret[1]


-----------------------------------------------------------------------------
(* The report functions *)

\* the sum of the values of a dict of counts
RECURSIVE SumCounts(_)
SumCounts(d) ==
    IF DOMAIN d = {} THEN 0
    ELSE LET key == CHOOSE k \in DOMAIN d : TRUE IN
         d[key] + SumCounts([k \in DOMAIN d \ {key} |-> d[k]])

\* the sum of all the counts of a dict of dicts of counts
RECURSIVE SumNested(_)
SumNested(d) ==
    IF DOMAIN d = {} THEN 0
    ELSE LET key == CHOOSE k \in DOMAIN d : TRUE IN
         SumCounts(d[key]) + SumNested([k \in DOMAIN d \ {key} |-> d[k]])

Aggregated == pc = "call" /\ call.fn = "aggregate" /\ ret # <<>>

Undated(ms) == {j \in 1..Len(ms) : ms[j].date = None}

\* C11: the total of a cluster is the number of its members and the sum of its
\* counts by status, which are counts of DELIVERED and OTHER only; the counts by
\* date sum to the total minus the members without a date; the aggregates of an
\* empty cluster are zero and empty.
C11_Aggregation ==
    Aggregated =>
        /\ ret[1].total = Len(call.arg.messages)
        /\ DOMAIN ret[1].counts_totals \subseteq {NORMALIZED_STATUS_DELIVERED, NORMALIZED_STATUS_OTHER}
        /\ ret[1].total = Get(ret[1].counts_totals, NORMALIZED_STATUS_DELIVERED, 0)
                            + Get(ret[1].counts_totals, NORMALIZED_STATUS_OTHER, 0)
        /\ SumNested(ret[1].counts_by_date)
             = ret[1].total - Cardinality(Undated(call.arg.messages))
        /\ \A day \in DOMAIN ret[1].counts_by_date :
             \E j \in 1..Len(call.arg.messages) :
                call.arg.messages[j].date = Date(day)
        /\ call.arg.messages = <<>> =>
             ret[1] = [total |-> 0, counts_totals |-> <<>>, counts_by_date |-> <<>>]

\* a cluster of three with a member without a date, two of one day, both statuses
C11_Witness ==
    /\ Aggregated
    /\ ret[1].total = 3
    /\ Cardinality(Undated(call.arg.messages)) = 1
    /\ \E day \in DOMAIN ret[1].counts_by_date : SumCounts(ret[1].counts_by_date[day]) = 2
    /\ DOMAIN ret[1].counts_totals = {NORMALIZED_STATUS_DELIVERED, NORMALIZED_STATUS_OTHER}


Summarized == pc = "call" /\ call.fn = "summarize_overall" /\ ret # <<>>

\* the members of the clusters cs, each named by its cluster and its place in it
MembersOf(cs) == UNION {{<<k, j>> : j \in 1..Len(cs[k].messages)} : k \in 1..Len(cs)}

DatedOf(cs) == {p \in MembersOf(cs) : cs[p[1]].messages[p[2]].date # None}

\* C12: summarize_overall returns the number of clusters, the number of members of
\* all of them as total_messages, which is total_entregue + total_nao_entregue,
\* and a dates map whose keys are the dates of the members that have one and
\* whose counts sum to the number of those members.
C12_Rollup ==
    Summarized =>
        /\ ret[1].total_clusters = Len(call.arg.clusters)
        /\ ret[1].total_messages = Cardinality(MembersOf(call.arg.clusters))
        /\ ret[1].total_messages = ret[1].total_entregue + ret[1].total_nao_entregue
        /\ SumCounts(ret[1].dates) = Cardinality(DatedOf(call.arg.clusters))
        /\ DOMAIN ret[1].dates
             = {call.arg.clusters[p[1]].messages[p[2]].date.val : p \in DatedOf(call.arg.clusters)}

\* three clusters, five members, two days, a member without a date, both statuses
C12_Witness ==
    /\ Summarized
    /\ ret[1].total_clusters = 3
    /\ ret[1].total_messages = 5
    /\ Cardinality(DOMAIN ret[1].dates) = 2
    /\ Cardinality(DatedOf(call.arg.clusters)) = 4
    /\ ret[1].total_entregue > 0
    /\ ret[1].total_nao_entregue > 0


Templated == pc = "call" /\ call.fn = "sanitize_template" /\ ret # <<>>

\* the tokens of the members of a cluster whose body is not empty
MemberTokens(cluster) ==
    LET named == {j \in 1..Len(cluster.messages) : Strip(cluster.messages[j].body) # <<>>} IN
    [j \in named |-> Split(cluster.messages[j].body)]

\* every member has a token at position i, and the same one
SameToken(tokens, i) ==
    /\ \A j \in DOMAIN tokens : i <= Len(tokens[j])
    /\ \A j, k \in DOMAIN tokens : tokens[j][i] = tokens[k][i]

\* position by position: the common token, or a placeholder
PositionWise(tokens) ==
    [i \in 1..SetMax({Len(tokens[j]) : j \in DOMAIN tokens}) |->
        IF SameToken(tokens, i) THEN tokens[CHOOSE j \in DOMAIN tokens : TRUE][i]
        ELSE PLACEHOLDER]

\* a sequence of tokens with every run of placeholders made one placeholder
RECURSIVE Collapsed(_)
Collapsed(tokens) ==
    IF Len(tokens) < 2 THEN tokens
    ELSE IF tokens[1] = PLACEHOLDER /\ tokens[2] = PLACEHOLDER THEN Collapsed(Tail(tokens))
    ELSE <<tokens[1]>> \o Collapsed(Tail(tokens))

TwoInARow(tokens) ==
    \E i \in 1..Len(tokens) - 1 : tokens[i] = PLACEHOLDER /\ tokens[i + 1] = PLACEHOLDER

\* C13: for a cluster with two or more members that are not empty, body_template
\* is, position by position, the token all members share or a placeholder, with
\* consecutive placeholders collapsed: it never has two placeholder tokens in a row.
C13_PositionRule ==
    Templated /\ Cardinality(DOMAIN MemberTokens(call.arg)) >= 2 =>
        /\ Split(ret[1]) = Collapsed(PositionWise(MemberTokens(call.arg)))
        /\ ~TwoInARow(Split(ret[1]))


PlaceholdersIn(tokens) == Cardinality({i \in 1..Len(tokens) : tokens[i] = PLACEHOLDER})

\* empty, placeholders only, or placeholders for 60% of the tokens or more
Degenerate(tokens) ==
    \/ tokens = <<>>
    \/ PlaceholdersIn(tokens) = Len(tokens)
    \/ 10 * PlaceholdersIn(tokens) >= 6 * Len(tokens)

\* C14: sanitize_template returns representative_raw when the synthesized template
\* is empty, all placeholders, or placeholders for 60% or more of its tokens, and
\* otherwise the synthesized template, which then has a token that is not a
\* placeholder and fewer than 60% placeholders; it returns for every cluster.
C14_Fallback ==
    Templated =>
        /\ Degenerate(Split(ret[1])) => ret[2] = call.arg.representative_raw
        /\ ~Degenerate(Split(ret[1])) =>
             /\ ret[2] = Strip(ret[1])
             /\ \E i \in 1..Len(Split(ret[2])) : Split(ret[2])[i] # PLACEHOLDER
             /\ 10 * PlaceholdersIn(Split(ret[2])) < 6 * Len(Split(ret[2]))

\* a template of five tokens, three of them placeholders, is given up for the
\* raw text of the representative
C14_Witness ==
    /\ Templated
    /\ Len(Split(ret[1])) = 5
    /\ PlaceholdersIn(Split(ret[1])) = 3
    /\ ret[2] = call.arg.representative_raw
    /\ ret[2] # ret[1]


RECURSIVE TotalLen(_)
TotalLen(tokens) == IF tokens = <<>> THEN 0 ELSE Len(Head(tokens)) + TotalLen(Tail(tokens))

\* the text is the tokens with one space between each two
SingleSpaced(text, tokens) ==
    /\ Split(text) = tokens
    /\ Len(text) = TotalLen(tokens) + (IF tokens = <<>> THEN 0 ELSE Len(tokens) - 1)
    /\ \A i \in 1..Len(text) : IsSpace(text[i]) => text[i] = " "

\* C15: for a cluster with exactly one member, body_template is the tokens of the
\* member's raw body joined by single spaces, and what sanitize_template returns
\* has exactly the tokens of the body: the synthesis introduces no placeholder.
C15_SingleMember ==
    Templated /\ Len(call.arg.messages) = 1 =>
        /\ SingleSpaced(ret[1], Split(call.arg.messages[1].body))
        /\ Split(ret[2]) = Split(call.arg.messages[1].body)

\* one member whose body has two spaces between its tokens
C15_Witness ==
    /\ Templated
    /\ Len(call.arg.messages) = 1
    /\ Len(Split(ret[1])) = 2
    /\ ret[1] # call.arg.messages[1].body
    /\ ret[2] = ret[1]


-----------------------------------------------------------------------------
(* The arguments of main *)

\* a threshold that is a float but not in (0, 1]: zero or less, above one, or nan
OutOfRange(arg) ==
    \/ arg.kind \in {"inf", "nan"}
    \/ arg.kind = "float" /\ (arg.val <= 0 \/ arg.val > 100)

NothingProcessed ==
    /\ row_idx = 0
    /\ messages = <<>>
    /\ dropped = 0
    /\ msg_idx = 0
    /\ heap = <<>>
    /\ clusters = <<>>
    /\ report = <<>>

\* C16: with a threshold that is zero or less, above one or not a number, the run
\* ends with exit status 1 before anything is processed: no row is loaded, no
\* message is made, cluster_messages does not run and no report is printed.
C16_InvalidThreshold ==
    OutOfRange(argv) =>
        /\ pc \in {"start", "exit"}
        /\ NothingProcessed
        /\ status = IF pc = "exit" THEN Num(1) ELSE None

\* a run with a worksheet of two rows rejected for its threshold
C16_Witness ==
    /\ OutOfRange(argv)
    /\ pc = "exit"
    /\ status = Num(1)
    /\ Len(rows) = 2


-----------------------------------------------------------------------------
(* extract_date *)

Extracted == pc = "call" /\ call.fn = "extract_date" /\ ret # <<>>

\* the date columns, those of the sending before those of the creation
Priority == <<"date_sent", "data_envio", "sent_at", "date_created", "data_criacao">>

\* the places in Priority of the columns the row has with a value that parses
Parsing(row) ==
    {i \in 1..Len(Priority) :
        Priority[i] \in DOMAIN row /\ parse_datetime(row[Priority[i]]) # None}

\* C17: extract_date returns the date of the first column in priority order that
\* the row has and whose value parses, whatever unparseable values the columns
\* before it hold, and None when no column parses; for every cell (text, number,
\* date, null) it returns a date or None.
C17_ExtractDate ==
    Extracted =>
        /\ ret[1].kind \in {"none", "date"}
        /\ ret[1] = IF Parsing(call.arg) = {} THEN None
                    ELSE parse_datetime(call.arg[Priority[SetMin(Parsing(call.arg))]])

\* date_sent holds a text that is no date, data_envio is null, and the date comes
\* from date_created
C17_Witness ==
    /\ Extracted
    /\ {"date_sent", "data_envio", "date_created"} \subseteq DOMAIN call.arg
    /\ call.arg.date_sent.kind = "str"
    /\ parse_datetime(call.arg.date_sent) = None
    /\ call.arg.data_envio = None
    /\ ret[1] # None
    /\ ret[1] = parse_datetime(call.arg.date_created)


-----------------------------------------------------------------------------
(* The exact-match index *)

\* the clusters that hold message m
Holding(m) == {ref \in 1..Len(heap) : m \in Range(heap[ref].messages)}

\* C20: two messages given to cluster_messages with the same normalized body, not
\* empty, are members of the same cluster, at every threshold and whatever was
\* processed between them, and that cluster is the one the exact-match index has
\* for their normalized body.
C20_SameBodySameCluster ==
    Running =>
        \A i, j \in 1..msg_idx :
            i < j /\ messages[i].body_normalized = messages[j].body_normalized
                  /\ messages[i].body_normalized # <<>> =>
                /\ Holding(i) = Holding(j)
                /\ messages[i].body_normalized \in DOMAIN exact_index
                /\ Holding(j) = {exact_index[messages[j].body_normalized]}

\* the first and the third message differ as texts and not once normalized, and the
\* message processed between them is in another cluster
C20_Witness ==
    /\ pc = "done"
    /\ Len(messages) = 3
    /\ messages[1].body # messages[3].body
    /\ messages[1].body_normalized = messages[3].body_normalized
    /\ messages[1].body_normalized # <<>>
    /\ Holding(1) = Holding(3)
    /\ Holding(2) # Holding(1)


-----------------------------------------------------------------------------
(* gerar_relatorio_twilio *)

\* gerar_relatorio_twilio has returned or raised
Finished == gpc \in {"returned", "raised"}

\* the blocks whose worker returned a result
Succeeded == {i \in 1..Len(tarefas) : tarefas[i].state = "done"}

\* the sids of the rows of the saved workbook
SavedSids == IF arquivo = <<>> THEN {} ELSE {arquivo[1][k].sid : k \in 1..Len(arquivo[1])}

\* C18: when the worker of a block fails, the other workers still run to their end,
\* the records of the workers that succeeded are merged and written to the output,
\* and the merge step reports on every worker by itself.
C18_FailureIsolation ==
    Finished =>
        /\ \A i \in 1..Len(tarefas) : tarefas[i].state \in {"done", "failed"}
        /\ arquivo # <<>>
        /\ \A i \in Succeeded :
             \A k \in 1..Len(tarefas[i].result[1].registros) :
                tarefas[i].result[1].registros[k].sid \in SavedSids
        /\ \A i \in 1..Len(tarefas) : \E k \in 1..Len(logs) : logs[k].bloco = i

\* the records of the results in the order the loops of the merge visit them
RECURSIVE Visited(_)
Visited(results) ==
    IF results = <<>> THEN <<>> ELSE Head(results).registros \o Visited(Tail(results))

\* the last record of the sid among the records regs
LastOf(regs, sid) == regs[SetMax({k \in 1..Len(regs) : regs[k].sid = sid})]

\* the key of the sort, from the times of a record
KeyTime(reg) ==
    IF reg.date_sent # None THEN reg.date_sent.val
    ELSE IF reg.date_created # None THEN reg.date_created.val
    ELSE 0

KeyBefore(a, b) ==
    KeyTime(a) < KeyTime(b) \/ (KeyTime(a) = KeyTime(b) /\ a.sid < b.sid)

\* the records the streams of all blocks yield and the filter lets pass
Fetched ==
    UNION {{registro(twilio[i].msgs[k]) :
              k \in {n \in 1..Len(twilio[i].msgs) : twilio[i].msgs[n].body = "hit"}} :
           i \in 1..Len(twilio)}

\* C19: whatever the order in which the workers complete, the rows written have each
\* sid of the results exactly once, with the row of the last record merged for the
\* sid, in ascending order of (sort_key, sid), and total_encontradas is the number
\* of distinct sids; when the records that share a sid are equal, the rows written
\* are determined by the records alone: row p is that of the record with p - 1
\* records before it.
C19_Merge ==
    gpc = "returned" =>
        /\ arquivo = <<ws>>
        /\ SavedSids = {reg.sid : reg \in Fetched}
        /\ Len(ws) = Cardinality(SavedSids)
        /\ retorno[1].total_encontradas = Cardinality(SavedSids)
        /\ \A p \in 1..Len(ws) : ws[p] = LastOf(Visited(resultados), ws[p].sid).row
        /\ \A p, q \in 1..Len(ws) :
             p < q => KeyBefore(LastOf(Visited(resultados), ws[p].sid),
                                LastOf(Visited(resultados), ws[q].sid))
        /\ (\A a, b \in Fetched : a.sid = b.sid => a = b) =>
             \A reg \in Fetched :
                ws[Cardinality({other \in Fetched : KeyBefore(other, reg)}) + 1] = reg.row

\* three blocks whose results came in another order than that of the blocks, a sid
\* in two of them with equal records, and two records with the same sort_key
C19_Witness ==
    /\ gpc = "returned"
    /\ Len(resultados) = 3
    /\ resultados[1].indice = 3
    /\ Len(Visited(resultados)) > Len(ws)
    /\ \A a, b \in Fetched : a.sid = b.sid => a = b
    /\ \E p \in 1..Len(ws) - 1 :
          KeyTime(LastOf(Visited(resultados), ws[p].sid))
            = KeyTime(LastOf(Visited(resultados), ws[p + 1].sid))


-----------------------------------------------------------------------------
(* The life of a cluster *)

\* the members of a cluster are messages given so far, in the order they were given
InOrder(members) ==
    \A j \in 1..Len(members) - 1 : members[j] < members[j + 1]

\* C21: a step of cluster_messages creates at most one cluster, and only when the
\* search found no cluster for the message, with the normalized and raw body of
\* that message as its representative and the message as its one member; the
\* representative and representative_raw of a cluster never change afterwards;
\* members are only appended, in processing order, to one cluster per message, never
\* removed or moved; the number of clusters never decreases.
C21_Lifecycle ==
    [][ /\ Len(heap') \in {Len(heap), Len(heap) + 1}
        /\ Len(clusters') = Len(heap')
        /\ \A ref \in 1..Len(heap) :
             /\ heap'[ref].representative = heap[ref].representative
             /\ heap'[ref].representative_raw = heap[ref].representative_raw
             /\ heap'[ref].messages \in {heap[ref].messages, Append(heap[ref].messages, msg_idx')}
        /\ \A ref \in 1..Len(heap') :
             /\ heap'[ref].messages # <<>>
             /\ InOrder(heap'[ref].messages)
             /\ heap'[ref].representative = messages'[heap'[ref].messages[1]].body_normalized
             /\ heap'[ref].representative_raw = messages'[heap'[ref].messages[1]].body
        /\ Len(heap') > Len(heap) =>
             /\ pc = "cluster"
             /\ find_cluster(State, messages[msg_idx + 1], threshold) = 0
             /\ heap'[Len(heap')].messages = <<msg_idx + 1>>
             /\ \A ref \in 1..Len(heap) : heap'[ref] = heap[ref]
        /\ msg_idx' # msg_idx =>
             Cardinality({ref \in 1..Len(heap') : heap'[ref].messages
                             # (IF ref <= Len(heap) THEN heap[ref].messages ELSE <<>>)}) = 1
      ]_vars

\* the first cluster took the first message and, after the second message founded
\* a cluster of its own, the third, whose normalized body is not the representative
C21_Witness ==
    /\ pc = "done"
    /\ Len(heap) = 2
    /\ heap[1].messages = <<1, 3>>
    /\ heap[2].messages = <<2>>
    /\ messages[3].body_normalized # heap[1].representative
    /\ messages[3].body # heap[1].representative_raw


-----------------------------------------------------------------------------
(* The order of the candidates *)

\* the cluster that holds message m in the heap h
ClusterOfIn(h, m) == CHOOSE ref \in 1..Len(h) : m \in Range(h[ref].messages)

\* the first element of the list refs that is in the set ok
FirstOf(refs, ok) == refs[SetMin({k \in 1..Len(refs) : refs[k] \in ok})]

\* the clusters whose representative is similar to the normalized body
SimilarTo(normalized) ==
    {ref \in 1..Len(heap) : are_similar(normalized, heap[ref].representative, threshold)}

\* the clusters that pass the check of the lengths: the shorter of the two texts
\* has at least (threshold - 0.15) of the length of the longer
LengthOk(normalized) ==
    {ref \in 1..Len(heap) :
        \/ normalized = <<>>
        \/ heap[ref].representative = <<>>
        \/ 100 * Min(Len(normalized), Len(heap[ref].representative))
             >= (threshold - 15) * Max(Len(normalized), Len(heap[ref].representative))}

\* the first similar cluster of the bucket, else the first of the eligible
\* clusters in the order of the list, else a new cluster
FirstChoice(bucket, similar, eligible) ==
    IF Range(bucket) \cap similar # {} THEN FirstOf(bucket, similar)
    ELSE IF eligible # {} THEN FirstOf(clusters, eligible)
    ELSE Len(heap) + 1

\* the clusters outside the bucket that pass the length check, of those similar
Eligible(normalized, bucket, similar) ==
    (similar \ Range(bucket)) \cap Range(clusters) \cap LengthOk(normalized)

\* where the candidate order sends a message with this normalized body and this
\* bucket, given the clusters similar to it
DestinationOf(normalized, bucket, similar) ==
    FirstChoice(bucket, similar, Eligible(normalized, bucket, similar))

Destination(normalized, bucket) == DestinationOf(normalized, bucket, SimilarTo(normalized))

\* C22: a message the exact-match index does not route joins the first similar
\* cluster of the bucket of its 40-character prefix, in the order of the bucket;
\* if the bucket has none, the first cluster in creation order outside the bucket
\* that passes the length check and is similar; if there is none, a new cluster.
C22_CandidateOrder ==
    [][ /\ pc = "cluster"
        /\ msg_idx' = msg_idx + 1
        /\ ~(/\ messages[msg_idx'].body_normalized # <<>>
             /\ messages[msg_idx'].body_normalized \in DOMAIN exact_index)
        => ClusterOfIn(heap', msg_idx')
             = Destination(messages[msg_idx'].body_normalized,
                           Get(prefix_index, Prefix(messages[msg_idx'].body_normalized), <<>>))
      ]_vars

\* the third message went to the second cluster, which was in the bucket of its
\* prefix, although the first cluster, outside the bucket, is similar as well and
\* passes the length check
C22_Witness ==
    /\ pc = "cluster"
    /\ msg_idx = 3
    /\ Len(heap) = 2
    /\ heap[2].messages = <<2, 3>>
    /\ messages[3].body_normalized # messages[2].body_normalized
    /\ Prefix(messages[3].body_normalized) = Prefix(heap[2].representative)
    /\ Prefix(messages[3].body_normalized) # Prefix(heap[1].representative)
    /\ 1 \in SimilarTo(messages[3].body_normalized) \cap LengthOk(messages[3].body_normalized)

-----------------------------------------------------------------------------
(* dividir_periodo of src/script_relatorio.py: the split of the period *)

\* date.max, the last day a datetime.date holds: adding a timedelta that
\* leads beyond it raises OverflowError
DateMax == Ordinal(9999, 12, 31)

dias_totais(a) == a.data_fim - a.data_inicio + 1

blocos(a) == Max(1, Min(a.max_blocos, dias_totais(a)))

tamanho_bloco(a) == Max(1, (dias_totais(a) + blocos(a) - 1) \div blocos(a))

\* the value of inicio at the head of the while loop
inicio(a, intervalos) ==
    IF intervalos = <<>> THEN a.data_inicio ELSE intervalos[Len(intervalos)].fim + 1

\* the two date additions of one turn of the loop stay within date.max
turn_in_range(a, intervalos) ==
    /\ inicio(a, intervalos) + (tamanho_bloco(a) - 1) <= DateMax
    /\ Min(inicio(a, intervalos) + (tamanho_bloco(a) - 1), a.data_fim) + 1 <= DateMax

\* the interval one turn of the loop appends
intervalo(a, intervalos) ==
    [ inicio |-> inicio(a, intervalos),
      fim    |-> Min(inicio(a, intervalos) + (tamanho_bloco(a) - 1), a.data_fim) ]

MaxDias == 7

PeriodStarts == {Ordinal(2025, 1, 1)} \cup (DateMax - MaxDias)..DateMax

PeriodCalls ==
    UNION { { [ fn  |-> "dividir_periodo",
                arg |-> [data_inicio |-> i, data_fim |-> f, max_blocos |-> n] ] :
              f \in (i - 1)..Min(i + MaxDias - 1, DateMax), n \in 1..MaxBlocos } :
            i \in PeriodStarts }

InitPeriod == InitCalls(PeriodCalls)

\* one turn of the while loop (lines 186-189), or the OverflowError of one
\* of its two additions
DividirTurn ==
    /\ pc = "call"
    /\ call.fn = "dividir_periodo"
    /\ inicio(call.arg, ret) <= call.arg.data_fim
    /\ IF turn_in_range(call.arg, ret)
       THEN /\ ret' = Append(ret, intervalo(call.arg, ret))
            /\ pc' = pc
       ELSE /\ ret' = ret
            /\ pc' = "raised"
    /\ UNCHANGED <<rows, row_idx, messages, dropped, threshold, msg_idx, heap, ids,
                   allocator, clusters, exact_index, prefix_index, argv, status,
                   report, call>>
    /\ UNCHANGED fetch_vars
    /\ UNCHANGED conc_vars

\* the loop ends and intervalos is returned (line 190)
DividirReturn ==
    /\ pc = "call"
    /\ call.fn = "dividir_periodo"
    /\ inicio(call.arg, ret) > call.arg.data_fim
    /\ pc' = "done"
    /\ UNCHANGED <<rows, row_idx, messages, dropped, threshold, msg_idx, heap, ids,
                   allocator, clusters, exact_index, prefix_index, argv, status,
                   report, call, ret>>
    /\ UNCHANGED fetch_vars
    /\ UNCHANGED conc_vars

NextPeriod == DividirTurn \/ DividirReturn

SpecPeriod == InitPeriod /\ [][NextPeriod]_vars

\* what the split of a period has to be: a partition of data_inicio..data_fim
\* into at most max_blocos intervals
IsPartition(a, intervalos) ==
    /\ Len(intervalos) \in 1..a.max_blocos
    /\ \A j \in 1..Len(intervalos) : intervalos[j].inicio <= intervalos[j].fim
    /\ intervalos[1].inicio = a.data_inicio
    /\ intervalos[Len(intervalos)].fim = a.data_fim
    /\ \A j \in 1..Len(intervalos) - 1 : intervalos[j + 1].inicio = intervalos[j].fim + 1
    /\ \A day \in a.data_inicio..a.data_fim :
          Cardinality({ j \in 1..Len(intervalos) :
                        day \in intervalos[j].inicio..intervalos[j].fim }) = 1

\* C23: for data_inicio <= data_fim and max_blocos >= 1 dividir_periodo ends
\* with a return, never with an exception, and what it returns is a partition of the range
\* into 1..max_blocos intervals, each starting the day after the previous one ends
C23_Partition ==
    (call.fn = "dividir_periodo"
       /\ call.arg.data_inicio <= call.arg.data_fim /\ call.arg.max_blocos >= 1)
    => /\ pc # "raised"
       /\ pc = "call" => Len(ret) <= dias_totais(call.arg)
       /\ pc = "done" => IsPartition(call.arg, ret)

\* the same for the periods whose last day lies at least one block before date.max,
\* and the exception for every period that ends on date.max
PartitionInRange ==
    call.fn = "dividir_periodo" /\ call.arg.data_inicio <= call.arg.data_fim
    => /\ call.arg.data_fim + tamanho_bloco(call.arg) <= DateMax
          => /\ pc # "raised"
             /\ pc = "call" => Len(ret) <= dias_totais(call.arg)
             /\ pc = "done" => IsPartition(call.arg, ret)
       /\ call.arg.data_fim = DateMax => pc # "done"

PartitionDone ==
    /\ pc = "done"
    /\ call.fn = "dividir_periodo"
    /\ Len(ret) = 3
    /\ dias_totais(call.arg) = 5
    /\ IsPartition(call.arg, ret)

RaisedBeforeMax == pc = "raised" /\ call.fn = "dividir_periodo" /\ call.arg.data_fim < DateMax

-----------------------------------------------------------------------------
(* get_twilio_client of src/script_relatorio.py: the client of each thread *)

MaxGets == 4        \* calls of get_twilio_client in a run

\* (account sid, auth token) pairs
Credentials == {<<"AC1", "t1">>, <<"AC1", "t2">>, <<"AC2", "t1">>}

\* CLIENT_CACHE is a threading.local: an attribute read or written by a thread
\* is the attribute of that thread
slot_global(t) == 1

slot(t) == t

\* getattr(CLIENT_CACHE, "client", None): <<>> for None, else <<the dict>>
cached(t) == CLIENT_CACHE[slot(t)]

\* `cached and cached["sid"] == acc_sid and cached["token"] == auth_tok`
cache_hit(t, acc_sid, auth_tok) ==
    /\ cached(t) # <<>>
    /\ cached(t)[1].sid = acc_sid
    /\ cached(t)[1].token = auth_tok

\* Client(acc_sid, auth_tok), created by thread t
Client(t, acc_sid, auth_tok) == [sid |-> acc_sid, token |-> auth_tok, thread |-> t]

InitClient ==
    /\ MainIdle
    /\ FetchIdle
    /\ ConcIdle

\* one call get_twilio_client(acc_sid, auth_tok) by one thread
GetTwilioClient ==
    /\ Len(got) < MaxGets
    /\ \E t \in Threads, c \in Credentials :
         IF cache_hit(t, c[1], c[2])
         THEN /\ got' = Append(got, [thread |-> t, sid |-> c[1], token |-> c[2],
                                     client |-> cached(t)[1].client])
              /\ UNCHANGED <<CLIENT_CACHE, clients>>
         ELSE /\ clients' = Append(clients, Client(t, c[1], c[2]))
              /\ CLIENT_CACHE' = [CLIENT_CACHE EXCEPT ![slot(t)] =
                                    <<[sid |-> c[1], token |-> c[2], client |-> Len(clients) + 1]>>]
              /\ got' = Append(got, [thread |-> t, sid |-> c[1], token |-> c[2],
                                     client |-> Len(clients) + 1])
    /\ UNCHANGED main_vars
    /\ UNCHANGED fetch_vars
    /\ UNCHANGED <<log_vars, pdf_vars, web_vars>>

NextClient == GetTwilioClient

SpecClient == InitClient /\ [][NextClient]_vars

\* the call of the same thread before call k, 0 if k is its first
PreviousGet(k) ==
    LET earlier == { j \in 1..k - 1 : got[j].thread = got[k].thread }
    IN IF earlier = {} THEN 0 ELSE CHOOSE j \in earlier : \A i \in earlier : i <= j

SameCredentials(j, k) == got[j].sid = got[k].sid /\ got[j].token = got[k].token

\* C24: a thread never gets a client another thread created; the client it gets
\* has the credentials of the call; a call with the credentials of the thread's
\* previous call gets the same client, and any other call (the first of the thread
\* or one with other credentials) gets a client created by this call, which is from
\* then on the cached one of the thread
C24_ClientCache ==
    /\ \A k \in 1..Len(got) :
         /\ clients[got[k].client].thread = got[k].thread
         /\ clients[got[k].client].sid = got[k].sid
         /\ clients[got[k].client].token = got[k].token
         /\ IF PreviousGet(k) # 0 /\ SameCredentials(PreviousGet(k), k)
            THEN got[k].client = got[PreviousGet(k)].client
            ELSE \A j \in 1..k - 1 : got[j].client < got[k].client
    /\ Len(clients) = Cardinality({ got[k].client : k \in 1..Len(got) })
    /\ \A t \in Threads :
         LET mine == { k \in 1..Len(got) : got[k].thread = t }
         IN IF mine = {} THEN CLIENT_CACHE[t] = <<>>
            ELSE \E k \in mine :
                   /\ \A j \in mine : j <= k
                   /\ CLIENT_CACHE[t] = <<[sid |-> got[k].sid, token |-> got[k].token,
                                           client |-> got[k].client]>>

\* thread 1 and thread 2 ask with the same credentials and get two clients, thread 1
\* asks again and gets its first one, then asks with another token and gets a third
C24_Witness ==
    /\ Len(got) = 4
    /\ got[1].thread = 1 /\ got[2].thread = 2 /\ got[3].thread = 1 /\ got[4].thread = 1
    /\ SameCredentials(1, 2) /\ SameCredentials(1, 3)
    /\ got[4].sid = got[1].sid /\ got[4].token # got[1].token
    /\ got[1].client = 1 /\ got[2].client = 2 /\ got[3].client = 1 /\ got[4].client = 3
    /\ CLIENT_CACHE[1][1].client = 3
    /\ CLIENT_CACHE[2][1].client = 2

-----------------------------------------------------------------------------
(* temporary_log_callback and log of src/script_relatorio.py: runs that overlap *)

MaxLines == 2       \* lines a run logs inside temporary_log_callback

InitLog ==
    /\ MainIdle
    /\ FetchIdle
    /\ ConcIdle

InRun(r) == log_runs[r].pc \notin {"idle", "finished"}

\* temporary_log_callback: previous = LOG_CALLBACK (line 149)
SaveCallback ==
    /\ \E r \in Runs :
         /\ log_runs[r].pc = "idle"
         /\ log_runs' = [log_runs EXCEPT ![r].pc = "saved", ![r].previous = LOG_CALLBACK]
         /\ overlapped' = (overlapped \/ \E o \in Runs \ {r} : InRun(o))
    /\ UNCHANGED <<LOG_CALLBACK, log_lines>>
    /\ UNCHANGED <<main_vars, fetch_vars, client_vars, pdf_vars, web_vars>>

\* temporary_log_callback: set_log_callback(callback) (line 150), then the body
SetCallback ==
    /\ \E r \in Runs :
         /\ log_runs[r].pc = "saved"
         /\ LOG_CALLBACK' = <<r>>
         /\ log_runs' = [log_runs EXCEPT ![r].pc = "body"]
    /\ UNCHANGED <<log_lines, overlapped>>
    /\ UNCHANGED <<main_vars, fetch_vars, client_vars, pdf_vars, web_vars>>

\* log: `if LOG_CALLBACK:` (line 157), and the print of lines 160-161 if it is None
LogCheck ==
    /\ \E r \in Runs :
         /\ log_runs[r].pc = "body"
         /\ log_runs[r].line < MaxLines
         /\ IF LOG_CALLBACK # <<>>
            THEN /\ log_runs' = [log_runs EXCEPT ![r].pc = "checked"]
                 /\ log_lines' = log_lines
            ELSE /\ log_runs' = [log_runs EXCEPT ![r].line = @ + 1]
                 /\ log_lines' = log_lines \cup
                       {[run |-> r, line |-> log_runs[r].line + 1, sink |-> <<>>]}
    /\ UNCHANGED <<LOG_CALLBACK, overlapped>>
    /\ UNCHANGED <<main_vars, fetch_vars, client_vars, pdf_vars, web_vars>>

\* log: LOG_CALLBACK(msg) (line 158) reads the global again; calling None
\* raises TypeError, which leaves the body
LogCall ==
    /\ \E r \in Runs :
         /\ log_runs[r].pc = "checked"
         /\ IF LOG_CALLBACK # <<>>
            THEN /\ log_runs' = [log_runs EXCEPT ![r].pc = "body", ![r].line = @ + 1]
                 /\ log_lines' = log_lines \cup
                       {[run |-> r, line |-> log_runs[r].line + 1, sink |-> LOG_CALLBACK]}
            ELSE /\ log_runs' = [log_runs EXCEPT ![r].pc = "finally", ![r].error = TRUE]
                 /\ log_lines' = log_lines
    /\ UNCHANGED <<LOG_CALLBACK, overlapped>>
    /\ UNCHANGED <<main_vars, fetch_vars, client_vars, pdf_vars, web_vars>>

\* the body of the with statement ends (line 455)
EndBody ==
    /\ \E r \in Runs :
         /\ log_runs[r].pc = "body"
         /\ log_runs[r].line = MaxLines
         /\ log_runs' = [log_runs EXCEPT ![r].pc = "finally"]
    /\ UNCHANGED <<LOG_CALLBACK, log_lines, overlapped>>
    /\ UNCHANGED <<main_vars, fetch_vars, client_vars, pdf_vars, web_vars>>

\* temporary_log_callback: finally: set_log_callback(previous) (lines 153-154)
RestoreCallback ==
    /\ \E r \in Runs :
         /\ log_runs[r].pc = "finally"
         /\ LOG_CALLBACK' = log_runs[r].previous
         /\ log_runs' = [log_runs EXCEPT ![r].pc = "finished"]
    /\ UNCHANGED <<log_lines, overlapped>>
    /\ UNCHANGED <<main_vars, fetch_vars, client_vars, pdf_vars, web_vars>>

NextLog ==
    \/ SaveCallback
    \/ SetCallback
    \/ LogCheck
    \/ LogCall
    \/ EndBody
    \/ RestoreCallback

SpecLog == InitLog /\ [][NextLog]_vars

\* every log_lines line went to the callback of its run; no run failed in log;
\* once all runs have finished LOG_CALLBACK is None again, its value before the runs
Isolated ==
    /\ \A d \in log_lines : d.sink = <<d.run>>
    /\ \A r \in Runs : ~log_runs[r].error
    /\ (\A r \in Runs : log_runs[r].pc = "finished") => LOG_CALLBACK = <<>>

\* C25: when runs of gerar_relatorio_twilio with different callbacks overlap, every
\* line logged for a run is log_lines to the callback of that run and nowhere else, and
\* after the runs have finished LOG_CALLBACK has the value it had before they began
C25_LogIsolation == overlapped => Isolated

\* runs that do not overlap are isolated
SequentialIsolation == ~overlapped => Isolated

SequentialDone ==
    /\ ~overlapped
    /\ \A r \in Runs : log_runs[r].pc = "finished"
    /\ Cardinality(log_lines) = MaxRuns * MaxLines

\* a line of one run in the callback of the other, a line on print, a TypeError,
\* and a callback left behind after the runs
LineToOtherRun == \E d \in log_lines : d.sink # <<>> /\ d.sink # <<d.run>>

LineToPrint == \E d \in log_lines : d.sink = <<>>

LogRaised == \E r \in Runs : log_runs[r].error

CallbackLeftBehind == (\A r \in Runs : log_runs[r].pc = "finished") /\ LOG_CALLBACK # <<>>

-----------------------------------------------------------------------------
(* gerar_pdf_relatorio of src/analisar_e_gerar_pdf.py: the configuration globals *)

\* re.search(pattern, text, re.IGNORECASE) for patterns of letters and "."
re_search(pattern, text) ==
    \E i \in 1..(Len(text) - Len(pattern) + 1) :
       \A k \in 1..Len(pattern) :
          \/ pattern[k] = "." /\ text[i + k - 1] # "\n"
          \/ pattern[k] # "." /\ LowerChar(pattern[k]) = LowerChar(text[i + k - 1])

\* FILTRO.lower() in body_text.lower()
contains(filtro, body_text) ==
    \E i \in 1..(Len(body_text) - Len(filtro) + 1) :
       SubSeq(Lower(body_text), i, i + Len(filtro) - 1) = Lower(filtro)

\* analisar_dados: whether a record passes the filter held by the globals (lines 444-453)
passes_filter(reg, cfg) ==
    IF cfg.FILTRO # <<>> /\ reg.body # <<>>
    THEN IF cfg.USAR_REGEX
         THEN re_search(cfg.FILTRO, reg.body)
         ELSE contains(cfg.FILTRO, reg.body)
    ELSE cfg.FILTRO = <<>>

\* analisar_dados: registros_filtrados of one file
analisar_dados(dados, cfg) == SelectSeq(dados, LAMBDA reg : passes_filter(reg, cfg))

\* analisar_multiplos_arquivos: the registros_filtrados of each file that holds data
RECURSIVE analisar_multiplos_arquivos(_, _)
analisar_multiplos_arquivos(lista_arquivos, cfg) ==
    IF lista_arquivos = <<>> THEN <<>>
    ELSE IF Head(lista_arquivos) = <<>>
         THEN analisar_multiplos_arquivos(Tail(lista_arquivos), cfg)
         ELSE <<analisar_dados(Head(lista_arquivos), cfg)>>
              \o analisar_multiplos_arquivos(Tail(lista_arquivos), cfg)

\* dados_consolidados["total_filtrado"]
RECURSIVE total_filtrado(_)
total_filtrado(por_arquivo) ==
    IF por_arquivo = <<>> THEN 0 ELSE Len(Head(por_arquivo)) + total_filtrado(Tail(por_arquivo))

\* _normalizar_texto_sms, of <<>> (None) or <<text>>
normalizar_texto_sms(valor) ==
    IF valor = <<>> \/ Strip(valor[1]) = <<>> THEN <<>> ELSE <<Strip(valor[1])>>

\* the first record text of the filtered data (lines 130-135); the records hold
\* of MESSAGE_FIELDS only "body"
RECURSIVE first_copy(_)
first_copy(registros) ==
    IF registros = <<>> THEN <<>>
    ELSE IF normalizar_texto_sms(<<Head(registros).body>>) # <<>>
         THEN normalizar_texto_sms(<<Head(registros).body>>)
         ELSE first_copy(Tail(registros))

RECURSIVE flatten(_)
flatten(por_arquivo) ==
    IF por_arquivo = <<>> THEN <<>> ELSE Head(por_arquivo) \o flatten(Tail(por_arquivo))

\* _resolver_texto_sms(texto_preferencial, filtro, resultados_por_arquivo)
resolver_texto_sms(texto_preferencial, filtro, por_arquivo) ==
    IF normalizar_texto_sms(texto_preferencial) # <<>>
    THEN normalizar_texto_sms(texto_preferencial)
    ELSE IF normalizar_texto_sms(<<filtro>>) # <<>>
         THEN normalizar_texto_sms(<<filtro>>)
         ELSE first_copy(flatten(por_arquivo))

\* the assignments of lines 1275-1286
set_globals(cfg, args) ==
    [ cfg EXCEPT
        !.FILTRO            = IF args.filtro # <<>> THEN args.filtro[1] ELSE @,
        !.USAR_REGEX        = IF args.usar_regex # <<>> THEN args.usar_regex[1] ELSE @,
        !.ID_FLOW           = IF args.id_flow # <<>> THEN args.id_flow[1] ELSE @,
        !.ARQUIVO_PDF_SAIDA = IF args.arquivo_pdf_saida # <<>> THEN args.arquivo_pdf_saida[1] ELSE @,
        !.SUBTITLE          = IF args.subtitle # <<>> THEN args.subtitle[1] ELSE @,
        !.DATA_RELATORIO    = IF args.data_relatorio # <<>> THEN args.data_relatorio[1] ELSE @ ]

\* the finally clause (lines 1299-1306), without the assignment of TEXTO_SMS
restore_globals_but_text(cfg, backup) ==
    [ cfg EXCEPT
        !.FILTRO            = backup.FILTRO,
        !.USAR_REGEX        = backup.USAR_REGEX,
        !.ID_FLOW           = backup.ID_FLOW,
        !.ARQUIVO_PDF_SAIDA = backup.ARQUIVO_PDF_SAIDA,
        !.SUBTITLE          = backup.SUBTITLE,
        !.DATA_RELATORIO    = backup.DATA_RELATORIO ]

\* the finally clause (lines 1299-1306)
restore_globals(cfg, backup) ==
    [ cfg EXCEPT
        !.FILTRO            = backup.FILTRO,
        !.USAR_REGEX        = backup.USAR_REGEX,
        !.ID_FLOW           = backup.ID_FLOW,
        !.TEXTO_SMS         = backup.TEXTO_SMS,
        !.ARQUIVO_PDF_SAIDA = backup.ARQUIVO_PDF_SAIDA,
        !.SUBTITLE          = backup.SUBTITLE,
        !.DATA_RELATORIO    = backup.DATA_RELATORIO ]

\* --- inputs ---

Upload ==
    << [status |-> "delivered", body |-> <<"a", "b", "c">>],
       [status |-> "failed",    body |-> <<"a", ".", "c">>],
       [status |-> "sent",      body |-> <<"X", "y">>] >>

\* the arguments of a job of the web interface: filtro, usar_regex and
\* arquivo_pdf_saida always given, texto_sms and subtitle given or None
WebArgs(j) ==
    { [ NoPdfArgs EXCEPT !.arquivos = <<Upload>>, !.filtro = <<f[1]>>, !.usar_regex = <<f[2]>>,
                         !.texto_sms = f[3], !.subtitle = f[4],
                         !.arquivo_pdf_saida = <<(<<"tmp", j>>)>> ] :
      f \in { <<(<<"a", ".", "c">>), TRUE, <<>>, <<>>>>,
              <<(<<"a", ".", "c">>), FALSE, <<(<<"t">>)>>, <<(<<"s">>)>>>>,
              <<(<<"x", "y">>), FALSE, <<>>, <<>>>>,
              <<(<<"z">>), TRUE, <<>>, <<>>>>,
              <<(<<>>), FALSE, <<>>, <<>>>> } }

\* other calls: no file, an empty file, every optional argument absent, every one given
OtherArgs ==
    { NoPdfArgs,
      [NoPdfArgs EXCEPT !.arquivos = <<(<<>>)>>],
      [NoPdfArgs EXCEPT !.arquivos = <<Upload>>],
      [NoPdfArgs EXCEPT !.arquivos = <<(<<>>), Upload>>, !.filtro = <<(<<"y">>)>>,
                        !.usar_regex = <<TRUE>>, !.id_flow = <<(<<"f">>)>>,
                        !.data_relatorio = <<"yesterday">>] }

PdfArgs(j) == WebArgs(j) \cup OtherArgs

InitPdf ==
    /\ MainIdle
    /\ FetchIdle
    /\ ClientIdle
    /\ LogIdle
    /\ WebIdle
    /\ config = PdfDefaults
    /\ pdf_jobs \in { f \in [PdfJobs -> { PdfJob(a) : a \in UNION { PdfArgs(j) : j \in PdfJobs } }] :
                      \A j \in PdfJobs : f[j].args \in PdfArgs(j) }
    /\ pdfs = [path \in PdfPaths |-> <<>>]
    /\ pdf_overlapped = FALSE

InCall(j) == pdf_jobs[j].pc \notin {"idle", "returned", "raised"}

\* lines 1260-1272: ValueError for an empty list of files, else the backup
BeginPdf ==
    /\ \E j \in PdfJobs :
         /\ pdf_jobs[j].pc = "idle"
         /\ pdf_jobs' = [pdf_jobs EXCEPT
                ![j].at_begin = config,
                ![j].backup = IF pdf_jobs[j].args.arquivos = <<>> THEN @ ELSE config,
                ![j].erro = IF pdf_jobs[j].args.arquivos = <<>> THEN <<"ValueError">> ELSE @,
                ![j].pc = IF pdf_jobs[j].args.arquivos = <<>> THEN "raised" ELSE "set"]
         /\ pdf_overlapped' = (pdf_overlapped \/ \E o \in PdfJobs \ {j} : InCall(o))
    /\ UNCHANGED <<config, pdfs>>
    /\ UNCHANGED <<main_vars, fetch_vars, client_vars, log_vars, web_vars>>

\* lines 1275-1286: the arguments that are not None go into the globals
SetGlobals ==
    /\ \E j \in PdfJobs :
         /\ pdf_jobs[j].pc = "set"
         /\ config' = set_globals(config, pdf_jobs[j].args)
         /\ pdf_jobs' = [pdf_jobs EXCEPT ![j].pc = "analyse"]
    /\ UNCHANGED <<pdfs, pdf_overlapped>>
    /\ UNCHANGED <<main_vars, fetch_vars, client_vars, log_vars, web_vars>>

\* lines 1288-1291: analisar_multiplos_arquivos filters with the globals;
\* ValueError if nothing passed
Analyse ==
    /\ \E j \in PdfJobs :
         /\ pdf_jobs[j].pc = "analyse"
         /\ pdf_jobs' = [pdf_jobs EXCEPT
                ![j].filtrados = analisar_multiplos_arquivos(pdf_jobs[j].args.arquivos, config),
                ![j].erro = IF total_filtrado(analisar_multiplos_arquivos(pdf_jobs[j].args.arquivos, config)) = 0
                            THEN <<"ValueError">> ELSE @,
                ![j].pc = IF total_filtrado(analisar_multiplos_arquivos(pdf_jobs[j].args.arquivos, config)) = 0
                          THEN "finally" ELSE "text"]
    /\ UNCHANGED <<config, pdfs, pdf_overlapped>>
    /\ UNCHANGED <<main_vars, fetch_vars, client_vars, log_vars, web_vars>>

\* lines 1293-1295: _resolver_texto_sms(texto_sms, FILTRO, ...) and TEXTO_SMS
ResolveText ==
    /\ \E j \in PdfJobs :
         /\ pdf_jobs[j].pc = "text"
         /\ pdf_jobs' = [pdf_jobs EXCEPT
                ![j].texto = resolver_texto_sms(pdf_jobs[j].args.texto_sms, config.FILTRO,
                                                pdf_jobs[j].filtrados),
                ![j].pc = "open"]
         /\ config' = IF resolver_texto_sms(pdf_jobs[j].args.texto_sms, config.FILTRO,
                                            pdf_jobs[j].filtrados) # <<>>
                      THEN [config EXCEPT !.TEXTO_SMS =
                              resolver_texto_sms(pdf_jobs[j].args.texto_sms, config.FILTRO,
                                                 pdf_jobs[j].filtrados)[1]]
                      ELSE config
    /\ UNCHANGED <<pdfs, pdf_overlapped>>
    /\ UNCHANGED <<main_vars, fetch_vars, client_vars, log_vars, web_vars>>

\* gerar_relatorio_multiplo_pdf: PdfPages(ARQUIVO_PDF_SAIDA) (line 1216)
OpenPdf ==
    /\ \E j \in PdfJobs :
         /\ pdf_jobs[j].pc = "open"
         /\ pdf_jobs' = [pdf_jobs EXCEPT ![j].aberto = <<config.ARQUIVO_PDF_SAIDA>>,
                                         ![j].pc = "draw"]
    /\ UNCHANGED <<config, pdfs, pdf_overlapped>>
    /\ UNCHANGED <<main_vars, fetch_vars, client_vars, log_vars, web_vars>>

\* criar_pagina_consolidada draws the totals and TEXTO_SMS (line 758); the page is saved
DrawPage ==
    /\ \E j \in PdfJobs :
         /\ pdf_jobs[j].pc = "draw"
         /\ pdfs' = [pdfs EXCEPT ![pdf_jobs[j].aberto[1]] =
                       <<[ texto |-> config.TEXTO_SMS,
                           total_filtrado |-> total_filtrado(pdf_jobs[j].filtrados) ]>>]
         /\ pdf_jobs' = [pdf_jobs EXCEPT ![j].pc = "return"]
    /\ UNCHANGED <<config, pdf_overlapped>>
    /\ UNCHANGED <<main_vars, fetch_vars, client_vars, log_vars, web_vars>>

\* return Path(ARQUIVO_PDF_SAIDA) (line 1298)
ReturnPdf ==
    /\ \E j \in PdfJobs :
         /\ pdf_jobs[j].pc = "return"
         /\ pdf_jobs' = [pdf_jobs EXCEPT ![j].retorno = <<config.ARQUIVO_PDF_SAIDA>>,
                                         ![j].pc = "finally"]
    /\ UNCHANGED <<config, pdfs, pdf_overlapped>>
    /\ UNCHANGED <<main_vars, fetch_vars, client_vars, log_vars, web_vars>>

\* the finally clause restores the seven globals (lines 1299-1306)
RestoreGlobals ==
    /\ \E j \in PdfJobs :
         /\ pdf_jobs[j].pc = "finally"
         /\ config' = restore_globals(config, pdf_jobs[j].backup)
         /\ pdf_jobs' = [pdf_jobs EXCEPT
                ![j].pc = IF pdf_jobs[j].erro = <<>> THEN "returned" ELSE "raised"]
    /\ UNCHANGED <<pdfs, pdf_overlapped>>
    /\ UNCHANGED <<main_vars, fetch_vars, client_vars, log_vars, web_vars>>

\* any other exception inside the try statement: an invalid regular expression in
\* analisar_dados, a file that cannot be read, a path that cannot be resolved
FailPdf ==
    /\ \E j \in PdfJobs :
         /\ pdf_jobs[j].pc \in {"analyse", "text", "open", "return"}
         /\ pdf_jobs' = [pdf_jobs EXCEPT ![j].erro = <<"Exception">>, ![j].pc = "finally"]
    /\ UNCHANGED <<config, pdfs, pdf_overlapped>>
    /\ UNCHANGED <<main_vars, fetch_vars, client_vars, log_vars, web_vars>>

NextPdf ==
    \/ BeginPdf
    \/ FailPdf
    \/ SetGlobals
    \/ Analyse
    \/ ResolveText
    \/ OpenPdf
    \/ DrawPage
    \/ ReturnPdf
    \/ RestoreGlobals

SpecPdf == InitPdf /\ [][NextPdf]_vars

\* C26: a call of gerar_pdf_relatorio that overlaps no other call leaves, when it
\* returns or raises, each of the seven globals with the value it had when the call began
C26_GlobalsRestored ==
    [][ \A j \in PdfJobs :
          (InCall(j) \/ pdf_jobs[j].pc = "idle")
          /\ pdf_jobs'[j].pc \in {"returned", "raised"}
          /\ ~pdf_overlapped'
          => config' = pdf_jobs'[j].at_begin ]_vars

\* one call has returned and the next one has raised for want of data, both having
\* changed the globals meanwhile, and the globals are the defaults again
C26_Witness ==
    /\ ~pdf_overlapped
    /\ pdf_jobs[1].pc = "returned"
    /\ pdf_jobs[1].texto # <<>>
    /\ pdfs[<<"tmp", 1>>] # <<>>
    /\ pdf_jobs[2].pc = "raised"
    /\ pdf_jobs[2].args.filtro = <<(<<"z">>)>>
    /\ pdf_jobs[2].filtrados # <<>>
    /\ config = PdfDefaults

\* what a job of the web interface has to get: the records its own filter passes,
\* the text resolved from its own arguments, its own path
IsWebJob(j) == pdf_jobs[j].args \in WebArgs(j)

OwnConfig(j) == set_globals(PdfDefaults, pdf_jobs[j].args)

OwnFiltrados(j) == analisar_multiplos_arquivos(pdf_jobs[j].args.arquivos, OwnConfig(j))

OwnTexto(j) ==
    IF resolver_texto_sms(pdf_jobs[j].args.texto_sms, OwnConfig(j).FILTRO, OwnFiltrados(j)) # <<>>
    THEN resolver_texto_sms(pdf_jobs[j].args.texto_sms, OwnConfig(j).FILTRO, OwnFiltrados(j))[1]
    ELSE PdfDefaults.TEXTO_SMS

PdfIsolated ==
    /\ \A j \in PdfJobs :
         IsWebJob(j) =>
           /\ pdf_jobs[j].pc \in {"text", "open", "draw", "return"} \/ pdf_jobs[j].retorno # <<>>
              => pdf_jobs[j].filtrados = OwnFiltrados(j)
           /\ pdf_jobs[j].aberto # <<>> => pdf_jobs[j].aberto = <<(<<"tmp", j>>)>>
           /\ pdf_jobs[j].retorno # <<>>
              => /\ pdf_jobs[j].retorno = <<(<<"tmp", j>>)>>
                 /\ pdfs[<<"tmp", j>>] = <<[ texto |-> OwnTexto(j),
                                             total_filtrado |-> total_filtrado(OwnFiltrados(j)) ]>>
           /\ pdf_jobs[j].pc = "raised" /\ pdf_jobs[j].erro = <<"ValueError">>
              => total_filtrado(OwnFiltrados(j)) = 0
    /\ (\A j \in PdfJobs : ~InCall(j)) => config = PdfDefaults

\* C27: two PDF jobs of the web interface that run gerar_pdf_relatorio concurrently
\* each filter with their own filtro and usar_regex, render their own text and write to
\* their own arquivo_pdf_saida, and after both the globals are what they were before
C27_PdfIsolation == pdf_overlapped /\ (\A j \in PdfJobs : IsWebJob(j)) => PdfIsolated

\* jobs that do not overlap are isolated
SequentialPdfIsolation == ~pdf_overlapped => PdfIsolated

SequentialPdfDone ==
    /\ ~pdf_overlapped
    /\ \A j \in PdfJobs : IsWebJob(j) /\ pdf_jobs[j].pc = "returned"
    /\ pdf_jobs[1].filtrados # pdf_jobs[2].filtrados
    /\ pdfs[<<"tmp", 1>>] # pdfs[<<"tmp", 2>>]

\* the failures of overlapping jobs: the filter of the other job, the text of the other
\* job, the page in the file of the other job, globals not restored
WrongFilter ==
    \E j \in PdfJobs : IsWebJob(j) /\ pdf_jobs[j].pc = "text" /\ pdf_jobs[j].filtrados # OwnFiltrados(j)

WrongText ==
    \E j \in PdfJobs :
       /\ IsWebJob(j) /\ pdf_jobs[j].pc = "returned"
       /\ pdf_jobs[j].filtrados = OwnFiltrados(j)
       /\ pdf_jobs[j].retorno = <<(<<"tmp", j>>)>>
       /\ pdfs[<<"tmp", j>>] # <<>>
       /\ pdfs[<<"tmp", j>>][1].texto # OwnTexto(j)

WrongFile ==
    \E j \in PdfJobs : IsWebJob(j) /\ pdf_jobs[j].aberto \notin {<<>>, <<(<<"tmp", j>>)>>}

GlobalsLeftBehind ==
    /\ \A j \in PdfJobs : IsWebJob(j) /\ pdf_jobs[j].pc \in {"returned", "raised"}
    /\ config # PdfDefaults

-----------------------------------------------------------------------------
(* src/relatorio_sms_web.py: the logs of the jobs *)

MAX_LOG_ITEMS == 3  \* most lines a job keeps; 200 in the source (line 45)

MaxArrived == 4     \* calls of the log functions

NewPlanilhaJob ==
    [ status |-> "running", logs |-> <<>>, encontradas |-> 0, processados |-> 0,
      mensagem |-> <<>>, download_token |-> <<>>, erro |-> <<>> ]

NewPdfJob ==
    [ status |-> "running", logs |-> <<>>, mensagem |-> <<>>, erro |-> <<>>,
      download_token |-> <<>> ]

ENCONTRADA == <<"E", "n", "c", "o", "n", "t", "r", "a", "d", "a">>

\* "Encontrada" stands in mensagem at position i
word_at(mensagem, i) ==
    i + 9 <= Len(mensagem) /\ SubSeq(mensagem, i, i + 9) = ENCONTRADA

\* PROGRESS_REGEX, "Encontrada #?(\d+)", matches at position i: where its group
\* begins, 0 if it does not match there
group_at(mensagem, i) ==
    IF ~word_at(mensagem, i) \/ i + 11 > Len(mensagem) \/ mensagem[i + 10] # " " THEN 0
    ELSE IF mensagem[i + 11] \in Digits THEN i + 11
    ELSE IF mensagem[i + 11] = "#" /\ i + 12 <= Len(mensagem) /\ mensagem[i + 12] \in Digits
         THEN i + 12
         ELSE 0

\* PROGRESS_REGEX.search(mensagem): <<>> for no match, else <<int(match.group(1))>>
progress_search(mensagem) ==
    IF \A i \in 1..Len(mensagem) : group_at(mensagem, i) = 0 THEN <<>>
    ELSE <<TokVal(SubSeq(mensagem,
                         group_at(mensagem, SetMin({i \in 1..Len(mensagem) : group_at(mensagem, i) # 0})),
                         RunEnd(mensagem,
                                group_at(mensagem, SetMin({i \in 1..Len(mensagem) : group_at(mensagem, i) # 0})),
                                TRUE)))>>

\* `valor` of _registrar_log_job (lines 111-115): <<>> for None
valor(job, mensagem) ==
    IF progress_search(mensagem) # <<>> THEN progress_search(mensagem)
    ELSE IF \E i \in 1..Len(mensagem) : word_at(mensagem, i) THEN <<job.encontradas + 1>>
    ELSE <<>>

\* logs[:MAX_LOG_ITEMS], the oldest lines
trimmed_head(linhas) ==
    IF Len(linhas) > MAX_LOG_ITEMS THEN SubSeq(linhas, 1, MAX_LOG_ITEMS) ELSE linhas

\* logs[-MAX_LOG_ITEMS:] if there are more than MAX_LOG_ITEMS lines (lines 108-109)
trimmed(linhas) ==
    IF Len(linhas) > MAX_LOG_ITEMS
    THEN SubSeq(linhas, Len(linhas) - MAX_LOG_ITEMS + 1, Len(linhas))
    ELSE linhas

\* _registrar_log_job, on the registry `jobs`
registrar_log_job(jobs, job_id, mensagem) ==
    IF job_id \notin DOMAIN jobs THEN jobs
    ELSE [jobs EXCEPT ![job_id] =
            [@ EXCEPT !.logs = trimmed(Append(@, mensagem)),
                      !.encontradas = IF valor(jobs[job_id], mensagem) = <<>> THEN @
                                      ELSE Max(@, valor(jobs[job_id], mensagem)[1])]]

\* _registrar_log_pdf, on the registry `jobs`
registrar_log_pdf(jobs, job_id, mensagem) ==
    IF job_id \notin DOMAIN jobs THEN jobs
    ELSE [jobs EXCEPT ![job_id] = [@ EXCEPT !.logs = trimmed(Append(@, mensagem))]]

\* --- inputs ---

Encontrada2 == ENCONTRADA \o <<" ", "#", "2">>

Encontrada1 == <<"x", " ">> \o ENCONTRADA \o <<" ", "1", ":">>

Mensagens == {Encontrada2, Encontrada1, ENCONTRADA \o <<" ", "#">>, <<"o", "k">>}

PdfMensagens == {<<"o", "k">>, <<"p", "d", "f">>}

\* job 1 is a spreadsheet job, job 2 is a PDF job, both running; no job has the id 0
InitWebLog ==
    /\ MainIdle
    /\ FetchIdle
    /\ ClientIdle
    /\ LogIdle
    /\ PdfIdle
    /\ PLANILHA_JOBS = Put(<<>>, 1, NewPlanilhaJob)
    /\ PDF_JOBS = Put(<<>>, 2, NewPdfJob)
    /\ DOWNLOAD_CACHE = <<>>
    /\ web_workers = [w \in WebJobs |->
                        [pc |-> "generating", kind |-> IF w = 1 THEN "planilha" ELSE "pdf",
                         lines |-> 0, resultado |-> <<>>, exc |-> <<>>]]
    /\ temp_dirs = [d \in {<<"tmp", w>> : w \in WebJobs} |-> IF d[2] = 1 THEN {} ELSE {"upload"}]
    /\ responses = [r \in Requests |-> [pc |-> "none", token |-> <<>>, registro |-> <<>>,
                                        status |-> 0]]
    /\ arrived = <<>>

\* one call _registrar_log_job(job_id, mensagem)
CallRegistrarLogJob ==
    /\ Len(arrived) < MaxArrived
    /\ \E job_id \in {0, 1}, mensagem \in Mensagens :
         /\ PLANILHA_JOBS' = registrar_log_job(PLANILHA_JOBS, job_id, mensagem)
         /\ arrived' = Append(arrived, [fn |-> "job", job_id |-> job_id, mensagem |-> mensagem])
    /\ UNCHANGED <<PDF_JOBS, DOWNLOAD_CACHE, web_workers, temp_dirs, responses>>
    /\ UNCHANGED <<main_vars, fetch_vars, client_vars, log_vars, pdf_vars>>

\* one call _registrar_log_pdf(job_id, mensagem)
CallRegistrarLogPdf ==
    /\ Len(arrived) < MaxArrived
    /\ \E job_id \in {0, 2}, mensagem \in PdfMensagens :
         /\ PDF_JOBS' = registrar_log_pdf(PDF_JOBS, job_id, mensagem)
         /\ arrived' = Append(arrived, [fn |-> "pdf", job_id |-> job_id, mensagem |-> mensagem])
    /\ UNCHANGED <<PLANILHA_JOBS, DOWNLOAD_CACHE, web_workers, temp_dirs, responses>>
    /\ UNCHANGED <<main_vars, fetch_vars, client_vars, log_vars, pdf_vars>>

NextWebLog == CallRegistrarLogJob \/ CallRegistrarLogPdf

SpecWebLog == InitWebLog /\ [][NextWebLog]_vars

\* the lines that arrived for a job, in arrival order
RECURSIVE LinesOf(_, _, _)
LinesOf(calls, fn, job_id) ==
    IF calls = <<>> THEN <<>>
    ELSE IF Head(calls).fn = fn /\ Head(calls).job_id = job_id
         THEN <<Head(calls).mensagem>> \o LinesOf(Tail(calls), fn, job_id)
         ELSE LinesOf(Tail(calls), fn, job_id)

MostRecent(lines) == SubSeq(lines, Max(1, Len(lines) - MAX_LOG_ITEMS + 1), Len(lines))

\* C30: the logs of a job are at most MAX_LOG_ITEMS lines, the most recent of the lines
\* that arrived for it, in arrival order; encontradas of a running job never decreases;
\* a line for a job id that is not registered changes no registry
C30_BoundedLog ==
    /\ [](/\ \A job_id \in DOMAIN PLANILHA_JOBS :
               /\ Len(PLANILHA_JOBS[job_id].logs) <= MAX_LOG_ITEMS
               /\ PLANILHA_JOBS[job_id].logs = MostRecent(LinesOf(arrived, "job", job_id))
          /\ \A job_id \in DOMAIN PDF_JOBS :
               /\ Len(PDF_JOBS[job_id].logs) <= MAX_LOG_ITEMS
               /\ PDF_JOBS[job_id].logs = MostRecent(LinesOf(arrived, "pdf", job_id)))
    /\ [][ /\ \A job_id \in DOMAIN PLANILHA_JOBS :
                PLANILHA_JOBS[job_id].status = "running"
                => /\ job_id \in DOMAIN PLANILHA_JOBS'
                   /\ PLANILHA_JOBS'[job_id].encontradas >= PLANILHA_JOBS[job_id].encontradas
           /\ (arrived' # arrived
               /\ arrived'[Len(arrived')].job_id \notin
                    (IF arrived'[Len(arrived')].fn = "job" THEN DOMAIN PLANILHA_JOBS
                                                           ELSE DOMAIN PDF_JOBS))
              => PLANILHA_JOBS' = PLANILHA_JOBS /\ PDF_JOBS' = PDF_JOBS
         ]_vars

\* four lines arrived for job 1 and the first one is gone; "#2" came before "1" and
\* encontradas stayed 2, then a line without a number made it 3
C30_Witness ==
    /\ Len(LinesOf(arrived, "job", 1)) = MAX_LOG_ITEMS + 1
    /\ PLANILHA_JOBS[1].logs = Tail(LinesOf(arrived, "job", 1))
    /\ LinesOf(arrived, "job", 1)[1] = Encontrada2
    /\ LinesOf(arrived, "job", 1)[2] = Encontrada1
    /\ LinesOf(arrived, "job", 1)[3] = ENCONTRADA \o <<" ", "#">>
    /\ PLANILHA_JOBS[1].encontradas = 3

\* a line arrived for the id 0, which no job has
StrayLine ==
    /\ \E k \in 1..Len(arrived) : arrived[k].job_id = 0
    /\ Len(LinesOf(arrived, "pdf", 2)) = 2
    /\ PDF_JOBS[2].logs = LinesOf(arrived, "pdf", 2)

-----------------------------------------------------------------------------
(* src/relatorio_sms_web.py: the jobs and their downloads *)

Dir(w) == <<"tmp", w>>

Token(w) == <<"token", w>>

Cwd == <<"cwd", 0>>

\* job.update(campos)
update(job, campos) ==
    [k \in DOMAIN job \cup DOMAIN campos |-> IF k \in DOMAIN campos THEN campos[k] ELSE job[k]]

\* _atualizar_job and _atualizar_job_pdf, on the registry `jobs`
atualizar_job(jobs, job_id, campos) ==
    IF job_id \notin DOMAIN jobs THEN jobs
    ELSE [jobs EXCEPT ![job_id] = update(@, campos)]

\* d.pop(key, None) leaves d without key
without(d, key) == [k \in DOMAIN d \ {key} |-> d[k]]

\* DOWNLOAD_CACHE.get(token) in the place of the pop of _resgatar_download
resgatar_download_get(cache, token) ==
    [ registro |-> IF token \in DOMAIN cache THEN <<cache[token]>> ELSE <<>>,
      cache |-> cache ]

\* _resgatar_download on the cache: the entry of the token, None as <<>>, and the cache
\* that the pop leaves
resgatar_download(cache, token) ==
    [ registro |-> IF token \in DOMAIN cache THEN <<cache[token]>> ELSE <<>>,
      cache |-> without(cache, token) ]

\* shutil.rmtree(temp_dir, ignore_errors=True), omitted
rmtree_omitted(dirs, temp_dir) == dirs

\* shutil.rmtree(temp_dir, ignore_errors=True)
rmtree(dirs, temp_dir) == without(dirs, temp_dir)

\* caminho.exists()
exists(dirs, caminho) == caminho[1] \in DOMAIN dirs /\ caminho[2] \in dirs[caminho[1]]

\* the registry entry of job w, <<>> if it has none
JobOf(w) ==
    IF w \in DOMAIN PLANILHA_JOBS THEN <<PLANILHA_JOBS[w]>>
    ELSE IF w \in DOMAIN PDF_JOBS THEN <<PDF_JOBS[w]>>
    ELSE <<>>

InitWeb ==
    /\ MainIdle
    /\ FetchIdle
    /\ ConcIdle

\* gerar_planilha / gerar_pdf with a JSON request, up to the registration of the job
\* (lines 146-157, 252-260); gerar_pdf has saved the uploads in a temporary directory;
\* the jobs are numbered in the order of their registration
RegisterJob ==
    /\ \E w \in WebJobs, kind \in {"planilha", "pdf"} :
         /\ web_workers[w].pc = "none"
         /\ \A x \in WebJobs : x < w => web_workers[x].pc # "none"
         /\ web_workers' = [web_workers EXCEPT ![w].pc = "registered", ![w].kind = kind]
         /\ IF kind = "planilha"
            THEN /\ PLANILHA_JOBS' = Put(PLANILHA_JOBS, w, NewPlanilhaJob)
                 /\ UNCHANGED <<PDF_JOBS, temp_dirs>>
            ELSE /\ PDF_JOBS' = Put(PDF_JOBS, w, NewPdfJob)
                 /\ temp_dirs' = Put(temp_dirs, Dir(w), {"upload"})
                 /\ UNCHANGED PLANILHA_JOBS
    /\ UNCHANGED <<DOWNLOAD_CACHE, responses, arrived>>
    /\ UNCHANGED <<main_vars, fetch_vars, client_vars, log_vars, pdf_vars>>

\* thread.start() (lines 158-163, 262-267)
StartWorker ==
    /\ \E w \in WebJobs :
         /\ web_workers[w].pc = "registered"
         /\ web_workers' = [web_workers EXCEPT ![w].pc = "started"]
    /\ UNCHANGED <<PLANILHA_JOBS, PDF_JOBS, DOWNLOAD_CACHE, temp_dirs, responses, arrived>>
    /\ UNCHANGED <<main_vars, fetch_vars, client_vars, log_vars, pdf_vars>>

\* the worker up to the call of the generator: tempfile.mkdtemp (line 175), or the
\* first line of the PDF job (line 284)
WorkerBegin ==
    /\ \E w \in WebJobs :
         /\ web_workers[w].pc = "started"
         /\ web_workers' = [web_workers EXCEPT ![w].pc = "generating"]
         /\ IF web_workers[w].kind = "planilha"
            THEN /\ temp_dirs' = Put(temp_dirs, Dir(w), {})
                 /\ UNCHANGED PDF_JOBS
            ELSE /\ PDF_JOBS' = registrar_log_pdf(PDF_JOBS, w, <<"p", "d", "f">>)
                 /\ UNCHANGED temp_dirs
    /\ UNCHANGED <<PLANILHA_JOBS, DOWNLOAD_CACHE, responses, arrived>>
    /\ UNCHANGED <<main_vars, fetch_vars, client_vars, log_vars, pdf_vars>>

\* the generator logs a line: the callback of line 179, the logger of line 282; of the
\* lines of a job this one is followed, the others are the matter of SpecWebLog
LogLine ==
    /\ \E w \in WebJobs :
         /\ web_workers[w].pc = "generating"
         /\ web_workers[w].lines = 0
         /\ web_workers' = [web_workers EXCEPT ![w].lines = @ + 1]
         /\ IF web_workers[w].kind = "planilha"
            THEN /\ PLANILHA_JOBS' = registrar_log_job(PLANILHA_JOBS, w, Encontrada2)
                 /\ UNCHANGED PDF_JOBS
            ELSE /\ PDF_JOBS' = registrar_log_pdf(PDF_JOBS, w, <<"o", "k">>)
                 /\ UNCHANGED PLANILHA_JOBS
    /\ UNCHANGED <<DOWNLOAD_CACHE, temp_dirs, responses, arrived>>
    /\ UNCHANGED <<main_vars, fetch_vars, client_vars, log_vars, pdf_vars>>

\* the directories ARQUIVO_PDF_SAIDA can name when job w reads it (lines 1216, 1298 of
\* src/analisar_e_gerar_pdf.py): its own, or, once another PDF job has entered
\* gerar_pdf_relatorio, that of the other job or the default that its finally restores
pdf_dirs(w) ==
    LET others == { x \in WebJobs \ {w} :
                      /\ web_workers[x].kind = "pdf"
                      /\ web_workers[x].pc \notin {"none", "registered", "started"} }
    IN  {Dir(w)} \cup {Dir(x) : x \in others} \cup (IF others = {} THEN {} ELSE {Cwd})

\* the output file is written in directory d, which the working directory always is
write(dirs, d) ==
    IF d \in DOMAIN dirs THEN [dirs EXCEPT ![d] = @ \cup {"saida"}]
    ELSE IF d = Cwd THEN Put(dirs, d, {"saida"})
    ELSE dirs

\* the generator returns: gerar_relatorio_twilio has saved the workbook and returns the
\* totals; gerar_pdf_relatorio returns the path it read, and the file is there unless
\* the rendering failed, which gerar_relatorio_multiplo_pdf only prints
GenerateOk ==
    /\ \E w \in WebJobs :
         /\ web_workers[w].pc = "generating"
         /\ IF web_workers[w].kind = "planilha"
            THEN /\ \E n \in {0, 2} :
                      web_workers' = [web_workers EXCEPT
                          ![w].pc = "returned",
                          ![w].resultado = <<[path |-> <<Dir(w), "saida">>,
                                              total_encontradas |-> n,
                                              total_processadas |-> 2]>>]
                 /\ temp_dirs' = write(temp_dirs, Dir(w))
            ELSE \E d \in pdf_dirs(w), written \in BOOLEAN :
                      /\ web_workers' = [web_workers EXCEPT
                             ![w].pc = "returned",
                             ![w].resultado = <<[path |-> <<d, "saida">>]>>]
                      /\ temp_dirs' = IF written THEN write(temp_dirs, d) ELSE temp_dirs
    /\ UNCHANGED <<PLANILHA_JOBS, PDF_JOBS, DOWNLOAD_CACHE, responses, arrived>>
    /\ UNCHANGED <<main_vars, fetch_vars, client_vars, log_vars, pdf_vars>>

\* the generator raises (lines 191, 295)
GenerateFail ==
    /\ \E w \in WebJobs :
         /\ web_workers[w].pc = "generating"
         /\ web_workers' = [web_workers EXCEPT ![w].pc = "failed", ![w].exc = <<"Exception">>]
    /\ UNCHANGED <<PLANILHA_JOBS, PDF_JOBS, DOWNLOAD_CACHE, temp_dirs, responses, arrived>>
    /\ UNCHANGED <<main_vars, fetch_vars, client_vars, log_vars, pdf_vars>>

\* the except clause: shutil.rmtree(temp_dir, ignore_errors=True) (lines 192, 297)
RemoveTemp ==
    /\ \E w \in WebJobs :
         /\ web_workers[w].pc = "failed"
         /\ temp_dirs' = rmtree(temp_dirs, Dir(w))
         /\ web_workers' = [web_workers EXCEPT ![w].pc = "removed"]
    /\ UNCHANGED <<PLANILHA_JOBS, PDF_JOBS, DOWNLOAD_CACHE, responses, arrived>>
    /\ UNCHANGED <<main_vars, fetch_vars, client_vars, log_vars, pdf_vars>>

\* the except clause: _atualizar_job(job_id, status="error", erro=str(exc)) (lines 193, 298)
ReportError ==
    /\ \E w \in WebJobs :
         /\ web_workers[w].pc = "removed"
         /\ web_workers' = [web_workers EXCEPT ![w].pc = "end"]
         /\ IF web_workers[w].kind = "planilha"
            THEN /\ PLANILHA_JOBS' = atualizar_job(PLANILHA_JOBS, w,
                                       [status |-> "error", erro |-> web_workers[w].exc])
                 /\ UNCHANGED PDF_JOBS
            ELSE /\ PDF_JOBS' = atualizar_job(PDF_JOBS, w,
                                       [status |-> "error", erro |-> web_workers[w].exc])
                 /\ UNCHANGED PLANILHA_JOBS
    /\ UNCHANGED <<DOWNLOAD_CACHE, temp_dirs, responses, arrived>>
    /\ UNCHANGED <<main_vars, fetch_vars, client_vars, log_vars, pdf_vars>>

\* _registrar_download(saida, nome_saida, temp_dir) (lines 85-93, 196, 301)
RegisterDownload ==
    /\ \E w \in WebJobs :
         /\ web_workers[w].pc = "returned"
         /\ DOWNLOAD_CACHE' = Put(DOWNLOAD_CACHE, Token(w),
                                  [path |-> web_workers[w].resultado[1].path,
                                   name |-> w, cleanup |-> Dir(w)])
         /\ web_workers' = [web_workers EXCEPT ![w].pc = "token"]
    /\ UNCHANGED <<PLANILHA_JOBS, PDF_JOBS, temp_dirs, responses, arrived>>
    /\ UNCHANGED <<main_vars, fetch_vars, client_vars, log_vars, pdf_vars>>

\* _atualizar_job(job_id, status="done", ...) (lines 202-209, 302-307)
ReportDone ==
    /\ \E w \in WebJobs :
         /\ web_workers[w].pc = "token"
         /\ web_workers' = [web_workers EXCEPT ![w].pc = "end"]
         /\ IF web_workers[w].kind = "planilha"
            THEN /\ PLANILHA_JOBS' = atualizar_job(PLANILHA_JOBS, w,
                        [ status |-> "done", mensagem |-> <<"pronta">>,
                          download_token |-> <<Token(w)>>,
                          encontradas |-> web_workers[w].resultado[1].total_encontradas,
                          processados |-> web_workers[w].resultado[1].total_processadas ])
                 /\ UNCHANGED PDF_JOBS
            ELSE /\ PDF_JOBS' = atualizar_job(PDF_JOBS, w,
                        [ status |-> "done", mensagem |-> <<"gerado">>,
                          download_token |-> <<Token(w)>> ])
                 /\ UNCHANGED PLANILHA_JOBS
    /\ UNCHANGED <<DOWNLOAD_CACHE, temp_dirs, responses, arrived>>
    /\ UNCHANGED <<main_vars, fetch_vars, client_vars, log_vars, pdf_vars>>

\* baixar_arquivo: _resgatar_download(token) (lines 96-98, 525), and abort(404)
\* if it gave None (lines 526-527); the token is that of a job or one never registered;
\* the requests are numbered in the order of their calls of _resgatar_download
Resgatar ==
    /\ \E r \in Requests, token \in {Token(w) : w \in WebJobs \cup {0}} :
         /\ responses[r].pc = "none"
         /\ \A q \in Requests : q < r => responses[q].pc # "none"
         /\ LET popped == resgatar_download(DOWNLOAD_CACHE, token)
            IN  /\ responses' = [responses EXCEPT
                       ![r].token = <<token>>,
                       ![r].registro = popped.registro,
                       ![r].status = IF popped.registro = <<>> THEN 404 ELSE 0,
                       ![r].pc = IF popped.registro = <<>> THEN "answered" ELSE "popped"]
                /\ DOWNLOAD_CACHE' = popped.cache
    /\ UNCHANGED <<PLANILHA_JOBS, PDF_JOBS, web_workers, temp_dirs, arrived>>
    /\ UNCHANGED <<main_vars, fetch_vars, client_vars, log_vars, pdf_vars>>

\* baixar_arquivo: abort(410) if the file is missing (lines 533-534), else send_file
\* and, after the request, the unlink of the file and the rmtree of its directory
\* (lines 536-547)
Responder ==
    /\ \E r \in Requests :
         /\ responses[r].pc = "popped"
         /\ IF exists(temp_dirs, responses[r].registro[1].path)
            THEN /\ responses' = [responses EXCEPT ![r].status = 200, ![r].pc = "answered"]
                 /\ temp_dirs' = rmtree([temp_dirs EXCEPT ![responses[r].registro[1].path[1]] =
                                            @ \ {responses[r].registro[1].path[2]}],
                                        responses[r].registro[1].cleanup)
            ELSE /\ responses' = [responses EXCEPT ![r].status = 410, ![r].pc = "answered"]
                 /\ UNCHANGED temp_dirs
    /\ UNCHANGED <<PLANILHA_JOBS, PDF_JOBS, DOWNLOAD_CACHE, web_workers, arrived>>
    /\ UNCHANGED <<main_vars, fetch_vars, client_vars, log_vars, pdf_vars>>

WorkerStep ==
    \/ StartWorker
    \/ WorkerBegin
    \/ GenerateOk
    \/ GenerateFail
    \/ RemoveTemp
    \/ ReportError
    \/ RegisterDownload
    \/ ReportDone

NextWeb ==
    \/ RegisterJob
    \/ StartWorker
    \/ WorkerBegin
    \/ LogLine
    \/ GenerateOk
    \/ GenerateFail
    \/ RemoveTemp
    \/ ReportError
    \/ RegisterDownload
    \/ ReportDone
    \/ Resgatar
    \/ Responder

SpecWeb == InitWeb /\ [][NextWeb]_vars

\* a started thread runs, and the generator returns or raises
SpecWebFair == SpecWeb /\ WF_vars(WorkerStep)


Registered(w) == JobOf(w) # <<>>

Terminal(w) == Registered(w) /\ JobOf(w)[1].status \in {"done", "error"}

\* some request to /download/<token> obtained the entry of token
Redeemed(token) ==
    \E r \in Requests : responses[r].token = <<token>> /\ responses[r].registro # <<>>

\* the fields of the jobs agree with their status, and an error has left nothing behind
JobFields ==
    \A w \in WebJobs :
        /\ web_workers[w].pc # "none" => Registered(w)
        /\ web_workers[w].pc = "registered" => JobOf(w)[1].status = "running"
        /\ Registered(w) =>
             LET job == JobOf(w)[1]
             IN  /\ job.status \in {"running", "done", "error"}
                 /\ job.download_token # <<>> <=> job.status = "done"
                 /\ job.erro # <<>> => job.status = "error"
                 /\ job.status = "error" =>
                      /\ Dir(w) \notin DOMAIN temp_dirs
                      /\ Token(w) \notin DOMAIN DOWNLOAD_CACHE
                      /\ ~Redeemed(Token(w))

\* the status leaves "running" once, and a job in a terminal status keeps its status,
\* its token and its error
JobStep ==
    \A w \in WebJobs :
        Registered(w) =>
            /\ Registered(w)'
            /\ JobOf(w)[1].status # JobOf(w)[1].status' =>
                 /\ JobOf(w)[1].status = "running"
                 /\ JobOf(w)[1].status' \in {"done", "error"}
            /\ Terminal(w) =>
                 /\ JobOf(w)[1].download_token' = JobOf(w)[1].download_token
                 /\ JobOf(w)[1].erro' = JobOf(w)[1].erro

TokenRegistered(w) ==
    \/ web_workers[w].pc = "token"
    \/ Registered(w) /\ JobOf(w)[1].download_token # <<>>

\* the requests that obtained the entry of token
Obtained(token) ==
    { r \in Requests : responses[r].token = <<token>> /\ responses[r].registro # <<>> }

SingleUse ==
    /\ \A w \in WebJobs :
         /\ Cardinality(Obtained(Token(w))) <= 1
         /\ Obtained(Token(w)) # {} => /\ TokenRegistered(w)
                                       /\ Token(w) \notin DOMAIN DOWNLOAD_CACHE
         /\ TokenRegistered(w) /\ Obtained(Token(w)) = {} => Token(w) \in DOMAIN DOWNLOAD_CACHE
    /\ Obtained(Token(0)) = {}
    /\ \A r \in Requests :
         /\ responses[r].pc # "none" /\ responses[r].registro = <<>> =>
              /\ responses[r].status = 404
              /\ responses[r].pc = "answered"
         /\ responses[r].registro # <<>> => responses[r].status \in {0, 200, 410}

\* a request obtains the entry exactly if its token is in DOWNLOAD_CACHE when it asks,
\* and what a request obtained stays
RedeemStep ==
    \A r \in Requests :
        /\ responses[r].pc = "none" /\ responses'[r].pc # "none" =>
             (responses'[r].registro # <<>> <=> responses'[r].token[1] \in DOMAIN DOWNLOAD_CACHE)
        /\ responses[r].pc # "none" =>
             /\ responses'[r].token = responses[r].token
             /\ responses'[r].registro = responses[r].registro

\* C29: download tokens are single-use: each registered token is redeemed at most once;
\* of the concurrent or successive requests to /download/<token> with one token exactly
\* one obtains the cache entry and every other one gets 404; a token that was never
\* registered always gets 404; and a redeemed entry is removed from DOWNLOAD_CACHE
\* whether or not the file still exists
C29_SingleUse ==
    /\ []SingleUse
    /\ [][RedeemStep]_vars

\* two requests with the token of one job: one obtained the entry, the other got 404
C29_Witness ==
    \E w \in WebJobs, r, q \in Requests :
        /\ responses[r].token = <<Token(w)>> /\ responses[q].token = <<Token(w)>>
        /\ responses[r].pc = "answered" /\ responses[r].registro # <<>>
        /\ responses[q].pc = "answered" /\ responses[q].status = 404

\* a redeemed entry whose file was missing: 410, and the entry is gone
RedeemedMissing ==
    \E w \in WebJobs, r \in Requests :
        /\ responses[r].token = <<Token(w)>>
        /\ responses[r].status = 410
        /\ Token(w) \notin DOMAIN DOWNLOAD_CACHE

====
